---- MODULE Spec2Model ----
(***************************************************************************)
(* Model of the agents-service orchestration layer: the orchestrator       *)
(* workflows (app/orchestrator/agent_orchestrator.py), the four outbound   *)
(* clients (app/services/*.py), the Fallback Agent (mock_agent.py) and the *)
(* chat operations of the two transports (api/rest.py, graphql/schema.py). *)
(*                                                                         *)
(* One invocation is a coroutine: every action is the code that runs       *)
(* between two await points, i.e. "the pending call is answered, the       *)
(* client post-processes the answer, the handler continues up to the next  *)
(* outbound call (or returns / raises)".                                   *)
(*                                                                         *)
(* Texts are sequences of tokens (words, blanks, braces, JSON members);    *)
(* numbers with a fraction are kept in hundredths (confidence 0.7 = 70).   *)
(***************************************************************************)
EXTENDS Integers, Sequences, FiniteSets, TLC

VARIABLES
    settings,   \* config.Settings, loaded once (get_settings is lru_cached)
    gemini_impl,\* what the name GeminiClient resolves to: the class, or the
                \* substitute that src/tests monkeypatch in its place
    pc,         \* per invocation: the await point it is suspended at
    req,        \* per invocation: the inbound request
    loc,        \* per invocation: the handler's local variables
    calls,      \* per invocation: client operations invoked, in order
    http,       \* per invocation: HTTP requests put on the wire, in order
    replies,    \* per invocation: the answers to http, in order
    results,    \* per invocation: what each of calls handed back, in order
    outcome     \* per invocation: the returned result map or raised exception

vars ==
    <<settings, gemini_impl, pc, req, loc, calls, http, replies, results, outcome>>

----------------------------------------------------------------------------
(* Bounds of the model                                                     *)

MaxBudgets == 2      \* longest budget list the gateway answers with
MaxParts == 2        \* most parts in one candidate of a model response

----------------------------------------------------------------------------
(* Program constants                                                       *)

ConfidenceThreshold == 70   \* 0.7, in hundredths
AlertMessageCap == 200      \* analysis[:200]

----------------------------------------------------------------------------
(* Texts                                                                   *)

\* str.find: index of the first token c at or after position k, 0 if none
\* (positions are 1-based here, so Python's -1 is 0)
Find(s, c, k) ==
    IF \E j \in k..Len(s) : s[j] = c
    THEN CHOOSE j \in k..Len(s) : s[j] = c /\ \A m \in k..(j - 1) : s[m] # c
    ELSE 0

\* str.rfind: index of the last token c at or before position k, 0 if none
RFind(s, c, k) ==
    IF \E j \in 1..k : s[j] = c
    THEN CHOOSE j \in 1..k : s[j] = c /\ \A m \in (j + 1)..k : s[m] # c
    ELSE 0

\* str.lstrip
LStrip(s) ==
    IF \A j \in 1..Len(s) : s[j] = " " THEN <<>>
    ELSE SubSeq(s, CHOOSE j \in 1..Len(s) :
                      s[j] # " " /\ \A m \in 1..(j - 1) : s[m] = " ",
                Len(s))

\* str.rstrip
RStrip(s) ==
    IF \A j \in 1..Len(s) : s[j] = " " THEN <<>>
    ELSE SubSeq(s, 1, CHOOSE j \in 1..Len(s) :
                         s[j] # " " /\ \A m \in (j + 1)..Len(s) : s[m] = " ")

\* str.strip
Strip(s) == RStrip(LStrip(s))

RECURSIVE JoinSp(_)
\* " ".join(texts)
JoinSp(ts) ==
    IF ts = <<>> THEN <<>>
    ELSE IF Len(ts) = 1 THEN ts[1]
    ELSE ts[1] \o <<" ">> \o JoinSp(Tail(ts))

\* str.lower on one token
Lower(c) ==
    CASE c = "ALERTA" -> "alerta"
      [] c = "Excedido" -> "excedido"
      [] c = "Hola" -> "hola"
      [] c = "Ahorro" -> "ahorro"
      [] OTHER -> c

\* "w in text.lower()"
ContainsLower(s, w) == \E k \in 1..Len(s) : Lower(s[k]) = w

\* s[:n]
Take(s, n) == SubSeq(s, 1, IF Len(s) < n THEN Len(s) ELSE n)

NoText == <<"[No text provided]">>

----------------------------------------------------------------------------
(* JSON embedded in a text.  A member token stands for one "key": value    *)
(* pair; any other token between the braces makes the span malformed.      *)

MemberTokens ==
    {"amount:30", "amount:-12", "category:Transporte", "category:Salud",
     "description:Taxi"}

MemberKey(c) ==
    CASE c \in {"amount:30", "amount:-12"} -> "amount"
      [] c \in {"category:Transporte", "category:Salud"} -> "category"
      [] OTHER -> "description"

MemberNum(c) == IF c = "amount:30" THEN 30 ELSE IF c = "amount:-12" THEN -12 ELSE 0

MemberStr(c) ==
    CASE c = "category:Transporte" -> "Transporte"
      [] c = "category:Salud" -> "Salud"
      [] c = "description:Taxi" -> "Taxi"
      [] OTHER -> ""

\* f"{amount}" for the amounts of the model
NumStr(n) == IF n = 30 THEN "30" ELSE IF n = -12 THEN "-12" ELSE "0"

NoDict == [keys |-> {}, amount |-> 0, category |-> "", description |-> ""]

RECURSIVE Members(_, _)
\* the dict built from the members, a later duplicate key overriding
Members(ms, d) ==
    IF ms = <<>> THEN d
    ELSE LET c == Head(ms)
             k == MemberKey(c)
             d1 == [d EXCEPT !.keys = @ \cup {k}]
             d2 == CASE k = "amount" -> [d1 EXCEPT !.amount = MemberNum(c)]
                     [] k = "category" -> [d1 EXCEPT !.category = MemberStr(c)]
                     [] OTHER -> [d1 EXCEPT !.description = MemberStr(c)]
         IN Members(Tail(ms), d2)

IsNotBlank(c) == c # " "

\* json.loads(text): ok = FALSE stands for the JSONDecodeError; blanks
\* between the JSON tokens are not significant
JsonLoads(text) ==
    LET span == SelectSeq(text, IsNotBlank)
    IN IF /\ Len(span) >= 2
          /\ span[1] = "{"
          /\ span[Len(span)] = "}"
          /\ \A k \in 2..(Len(span) - 1) : span[k] \in MemberTokens
       THEN [ok |-> TRUE, obj |-> Members(SubSeq(span, 2, Len(span) - 1), NoDict)]
       ELSE [ok |-> FALSE, obj |-> NoDict]

----------------------------------------------------------------------------
(* Model responses: a sequence of candidates, each a sequence of part texts *)

\* AgentOrchestrator._extract_gemini_text
ExtractGeminiText(response) ==
    IF response = <<>> THEN <<>>
    ELSE Strip(JoinSp(response[1]))

\* a parse that answers a default transaction where the code answers None
ParseTransactionFromGemini_Default(response) ==
    LET text == ExtractGeminiText(response)
        start == Find(text, "{", 1)
        end == RFind(text, "}", Len(text)) + 1
        parsedSpan == JsonLoads(SubSeq(text, start, end - 1))
    IN IF start >= 1 /\ end > start /\ parsedSpan.ok
       THEN [found |-> TRUE, obj |-> parsedSpan.obj]
       ELSE [found |-> TRUE,
             obj |-> [keys |-> {"amount", "category", "description"},
                      amount |-> 0, category |-> "Otros", description |-> ""]]

\* AgentOrchestrator._parse_transaction_from_gemini; found = FALSE is None
ParseTransactionFromGemini(response) ==
    LET text == ExtractGeminiText(response)
        start == Find(text, "{", 1)
        end == RFind(text, "}", Len(text)) + 1
        parsedSpan == JsonLoads(SubSeq(text, start, end - 1))
    IN IF start >= 1 /\ end > start /\ parsedSpan.ok
       THEN [found |-> TRUE, obj |-> parsedSpan.obj]
       ELSE [found |-> FALSE, obj |-> NoDict]

----------------------------------------------------------------------------
(* Exceptions, by class name.  httpx.HTTPStatusError and the transport     *)
(* errors (httpx.ConnectError, httpx.TimeoutException, ...) are the        *)
(* subclasses of httpx.HTTPError that the clients can meet.                *)

IsHTTPError(e) == e \in {"HTTPStatusError", "TransportError"}

\* an HTTP answer: net = "ok" means a response arrived; body says what the
\* response body is: "data" a JSON object carrying the expected payload,
\* "errors" a JSON object with an "errors" member, "null_data" the JSON
\* object {"data": null}, "not_json" a body json() cannot decode
Answer(net, status, body, data) ==
    [net |-> net, status |-> status, body |-> body, data |-> data]

\* httpx Response.raise_for_status raises for every non-2xx status
IsSuccess(status) == status >= 200 /\ status < 300

\* the answers that are failures whatever the payload type
FailedAnswers(nodata) ==
    { Answer("ok", 200, "errors", nodata),
      Answer("ok", 200, "not_json", nodata),
      Answer("ok", 200, "null_data", nodata),
      Answer("ok", 500, "errors", nodata),
      Answer("ok", 404, "not_json", nodata),
      Answer("timeout", 0, "not_json", nodata),
      Answer("connect_error", 0, "not_json", nodata) }

\* what a client operation hands back to its caller
Returned(v) == [raised |-> FALSE, exc |-> "", value |-> v]
Raised(e, nodata) == [raised |-> TRUE, exc |-> e, value |-> nodata]

----------------------------------------------------------------------------
(* GatewayClient                                                           *)

\* GatewayClient.headers: the Authorization header, "" when there is none
GatewayAuthorization(token) ==
    IF token = "" THEN ""
    ELSE IF token \in {"Bearer tok2"} THEN token
    ELSE "Bearer tok1"

\* GatewayClient.execute, from the answer to its one POST on
GatewayExecute(h, nodata) ==
    IF h.net # "ok"
    THEN \* except httpx.HTTPError: the handler reads exc.response, an
         \* attribute that only httpx.HTTPStatusError has
         Raised("AttributeError", nodata)
    ELSE IF ~IsSuccess(h.status)
    THEN \* raise_for_status; both arms of the diagnostic raise RuntimeError
         Raised("RuntimeError", nodata)
    ELSE IF h.body = "not_json"
    THEN Raised("JSONDecodeError", nodata)
    ELSE IF h.body = "errors"
    THEN Raised("RuntimeError", nodata)
    ELSE \* data.get("data", {})
         Returned(h.data)

\* the convenience methods: result = await self.execute(...);
\* return result.get(<key>, <default>)
GatewayResult(h, nodata) ==
    LET r == GatewayExecute(h, nodata)
    IN IF ~r.raised /\ h.body = "null_data"
       THEN \* execute returned None
            Raised("AttributeError", nodata)
       ELSE r

----------------------------------------------------------------------------
(* NotificationClient                                                      *)

NotifyStatus(s) == [status |-> s]

\* NotificationClient.send_notification, from the answer to its POST on
SendNotification(h) ==
    IF h.net # "ok" \/ ~IsSuccess(h.status)
    THEN \* except httpx.HTTPError
         Returned(NotifyStatus("error"))
    ELSE IF h.body = "not_json"
    THEN Raised("JSONDecodeError", NotifyStatus(""))
    ELSE IF h.body = "errors"
    THEN Returned(NotifyStatus("error"))
    ELSE IF h.body = "null_data"
    THEN \* data.get("data", {}).get(...) on None
         Raised("AttributeError", NotifyStatus(""))
    ELSE Returned(NotifyStatus("ok"))

----------------------------------------------------------------------------
(* MistralOCRClient                                                        *)

\* an OCR body: the "text" member may be absent
OcrBody(has, text) == [has_text |-> has, text |-> text]
NoOcr == OcrBody(FALSE, <<>>)

\* MistralOCRClient.extract_text, from the answer to its POST on
ExtractText(h) ==
    IF h.net # "ok" THEN Raised("TransportError", NoOcr)
    ELSE IF ~IsSuccess(h.status) THEN Raised("HTTPStatusError", NoOcr)
    ELSE IF h.body = "not_json" THEN Raised("JSONDecodeError", NoOcr)
    ELSE IF h.body = "data" THEN Returned(h.data)
    ELSE \* another JSON object: no "text" member
         Returned(NoOcr)

----------------------------------------------------------------------------
(* GeminiClient.  A message is one dict of the list handed to chat: shape  *)
(* "text" is {"role", "text"}, shape "parts" is {"role", "parts": [{"text"}]}. *)

Message(role, shape, text) == [role |-> role, shape |-> shape, text |-> text]

RECURSIVE GeminiContents(_)
\* the contents payload chat builds: it reads m.get("parts", []) only
GeminiContents(messages) ==
    IF messages = <<>> THEN <<>>
    ELSE LET m == Head(messages)
             text == IF m.shape = "parts" THEN Strip(m.text) ELSE <<>>
         IN (IF text # <<>> THEN <<Message(m.role, "parts", text)>> ELSE <<>>)
            \o GeminiContents(Tail(messages))

RECURSIVE PartTexts(_, _)
\* the texts of the parts of the messages (of the given role, "" for any)
PartTexts(messages, role) ==
    IF messages = <<>> THEN <<>>
    ELSE LET m == Head(messages)
         IN (IF m.shape = "parts" /\ role \in {"", m.role} THEN <<m.text>> ELSE <<>>)
            \o PartTexts(Tail(messages), role)

OrNoText(text) == IF text = <<>> THEN NoText ELSE text

\* one candidate with one part
Candidates(text) == << <<text>> >>

\* chat, the part before the POST: "post" when the request is to be sent
GeminiChatBefore(api_key, messages) ==
    IF ~api_key THEN [post |-> FALSE, ret |-> Raised("RuntimeError", <<>>)]
    ELSE IF GeminiContents(messages) = <<>>
    THEN [post |-> FALSE,
          ret |-> Returned(Candidates(OrNoText(Strip(JoinSp(PartTexts(messages, ""))))))]
    ELSE [post |-> TRUE, ret |-> Returned(<<>>)]

\* chat, from the answer to the POST on
GeminiChatAfter(h, contents, dev_mode) ==
    LET echo == Returned(Candidates(OrNoText(JoinSp(PartTexts(contents, "user")))))
    IN IF h.net # "ok" THEN Raised("TransportError", <<>>)
       ELSE IF ~IsSuccess(h.status)
       THEN IF h.status = 503 /\ dev_mode THEN echo
            ELSE IF h.status = 503 THEN Raised("HTTPStatusError", <<>>)
            ELSE IF h.status = 400 THEN echo
            ELSE Raised("HTTPStatusError", <<>>)
       ELSE IF h.body = "not_json" THEN Raised("JSONDecodeError", <<>>)
       ELSE IF h.body = "data" THEN Returned(h.data)
       ELSE \* a JSON body without "candidates": json.dumps(data) as the text
            Returned(Candidates(<<"json.dumps(data)">>))

----------------------------------------------------------------------------
(* Inputs and upstream answers                                             *)

Invocations == {"r1"}
Users == {"u1", "u2"}
Tokens == {"", "tok1", "Bearer tok2"}       \* "" is no Authorization header
Accounts == {"acc1"}

\* the Authorization value the caller of a user sends
TokenOf(u) == IF u = "u1" THEN "tok1" ELSE "Bearer tok2"

TxJson == <<"{", "amount:30", "category:Transporte", "description:Taxi", "}">>

\* a text longer than the cap of the alert messages
LongText == [k \in 1..(AlertMessageCap + 1) |-> IF k = 1 THEN "ALERTA" ELSE "x"]

\* texts a model answers with
ModelTexts ==
    { <<>>, <<" ">>, <<"OK">>, <<"ok">>, LongText, <<"No", " ", "pude">>,
      TxJson,
      <<"{", "amount:-12", "category:Salud", "description:Taxi", "}">>,
      <<"Claro:", " ">> \o TxJson \o <<" ", "listo">>,
      TxJson \o <<" ", "{", "}">>,
      <<"{", "amount:30", "category:Transporte", "}">>,
      <<"{", "category:Salud", "description:Taxi", "}">>,
      <<"{", "}">>,
      <<"{", "amount:30", "oops", "}">>,
      <<"}", "No", "{">>,
      <<"{", "amount:30">>,
      <<"ALERTA", " ", "gasto">>,
      <<"presupuesto", " ", "Excedido">> }

\* texts of the parts of a response of several parts
SplitTexts ==
    { <<"{", "amount:30">>, <<"category:Transporte", "description:Taxi", "}">> }

SeqsUpTo(S, n) == UNION { [1..k -> S] : k \in 0..n }

\* responses: no candidate; one candidate of one part; one candidate of
\* zero or several parts
ModelResponses ==
    {<<>>} \cup { Candidates(t) : t \in ModelTexts }
           \cup { <<parts>> : parts \in SeqsUpTo(SplitTexts, MaxParts) }

OcrTexts == { <<>>, <<"Total:", " ", "30">> }

OcrAnswers ==
    { Answer("ok", 200, "data", OcrBody(TRUE, t)) : t \in OcrTexts }
    \cup { Answer("ok", 200, "data", NoOcr) }
    \cup FailedAnswers(NoOcr)

GeminiAnswers ==
    { Answer("ok", 200, "data", r) : r \in ModelResponses }
    \cup { Answer("ok", 400, "errors", <<>>), Answer("ok", 503, "errors", <<>>) }
    \cup FailedAnswers(<<>>)

\* the id of the transaction the gateway created; "" is an answer without it
RegisterAnswers ==
    { Answer("ok", 200, "data", t) : t \in {"t2", ""} } \cup FailedAnswers("")

NotifyAnswers ==
    { Answer("ok", 200, "data", "n1") } \cup FailedAnswers("")

----------------------------------------------------------------------------
(* Records of the state                                                    *)

NoReq ==
    [workflow |-> "", user_id |-> "", token |-> "", account_id |-> "",
     amount |-> 0, months |-> 0, text |-> <<>>, messages |-> <<>>]

\* a client operation that was invoked, or an HTTP request that was sent
Call(svc, op) ==
    [svc |-> svc, op |-> op, user |-> "", auth |-> "", account |-> "",
     amount |-> 0, type |-> "", category |-> "", description |-> "",
     title |-> "", text |-> <<>>, messages |-> <<>>]

NoLoc ==
    [extracted_text |-> <<>>, messages |-> <<>>, parsed |-> NoDict,
     transaction |-> "", budgets |-> <<>>, transactions |-> <<>>,
     analysis |-> <<>>, accounts |-> <<>>, patterns |-> <<>>,
     forecast |-> <<>>, goals |-> <<>>, predictions |-> 0]

\* a result map: keys are the keys present
Result(status) ==
    [keys |-> {"status"}, status |-> status, message |-> "",
     transaction |-> "", ocr_text |-> <<>>, analysis |-> <<>>,
     budgets_reviewed |-> 0, category |-> <<>>, ml_confidence |-> 0,
     method |-> "", messages |-> <<>>, plan |-> <<>>, target |-> 0,
     months |-> 0, patterns |-> <<>>, forecast |-> <<>>, alert |-> <<>>,
     anomalies |-> 0]

NoOutcome == [kind |-> "none", exc |-> "", result |-> Result("")]
ReturnOut(res) == [kind |-> "return", exc |-> "", result |-> res]
RaiseOut(e) == [kind |-> "raise", exc |-> e, result |-> Result("")]

\* the handler suspends at await point p, having invoked cs and sent hs
Await(p, l, cs, hs) ==
    [pc |-> p, loc |-> l, calls |-> cs, http |-> hs, rets |-> <<>>,
     outcome |-> NoOutcome]

\* the handler ends
Done(l, cs, out) ==
    [pc |-> "done", loc |-> l, calls |-> cs, http |-> <<>>, rets |-> <<>>,
     outcome |-> out]

\* the handler ends on the exception e of the operation c, raised before c
\* sent anything
DoneOn(l, c, e) ==
    [pc |-> "done", loc |-> l, calls |-> <<c>>, http |-> <<>>,
     rets |-> <<[raised |-> TRUE, exc |-> e, value |-> <<>>, answered |-> <<>>]>>,
     outcome |-> RaiseOut(e)]

\* one step of invocation i: r its request, o what the pending operation
\* handed back (a sequence, empty when none was pending), answered the HTTP
\* answers that operation consumed, e the effect of the code that ran then
Step(i, r, o, answered, e) ==
    /\ req' = [req EXCEPT ![i] = r]
    /\ pc' = [pc EXCEPT ![i] = e.pc]
    /\ loc' = [loc EXCEPT ![i] = e.loc]
    /\ calls' = [calls EXCEPT ![i] = @ \o e.calls]
    /\ http' = [http EXCEPT ![i] = @ \o e.http]
    /\ replies' = [replies EXCEPT ![i] = @ \o answered]
    /\ results' = [results EXCEPT ![i] =
           @ \o [k \in 1..Len(o) |->
                    [raised |-> o[k].raised, exc |-> o[k].exc,
                     value |-> o[k].value, answered |-> answered]]
             \o e.rets]
    /\ outcome' = [outcome EXCEPT ![i] = e.outcome]
    /\ UNCHANGED <<settings, gemini_impl>>

----------------------------------------------------------------------------
(* Calling the model from a handler                                        *)

\* the chat operation invoked with messages
ChatCall(messages) == [Call("gemini", "chat") EXCEPT !.messages = messages]

\* the request GeminiClient.chat sends for it, if it sends one
ChatHttp(messages) ==
    IF gemini_impl = "GeminiClient"
       /\ GeminiChatBefore(settings.gemini_api_key, messages).post
    THEN <<[Call("gemini", "generateContent")
              EXCEPT !.messages = GeminiContents(messages)]>>
    ELSE <<>>

\* what the pending chat(messages) can hand back: ret to the caller,
\* answered the HTTP answer it consumed
ChatOutcomes(messages) ==
    IF gemini_impl = "AsyncMock"
    THEN { [ret |-> Returned(r), answered |-> <<>>] : r \in ModelResponses }
         \cup { [ret |-> Raised(e, <<>>), answered |-> <<>>] :
                  e \in {"RuntimeError", "HTTPStatusError", "TransportError"} }
    ELSE LET before == GeminiChatBefore(settings.gemini_api_key, messages)
         IN IF ~before.post
            THEN { [ret |-> before.ret, answered |-> <<>>] }
            ELSE { [ret |-> GeminiChatAfter(h, GeminiContents(messages),
                                            settings.gemini_dev_mode),
                    answered |-> <<h>>] : h \in GeminiAnswers }

\* the orchestrator's [{"role": "user", "text": prompt}]
UserPrompt(prompt) == <<Message("user", "text", prompt)>>

\* NotificationClient.send_notification's request
Notification(user_id, title, message, notification_type) ==
    [Call("notifier", "send_notification")
       EXCEPT !.user = user_id, !.title = title, !.text = message,
              !.type = notification_type]

\* the gateway operations whose variables hold a userId
CarriesUserId(op) ==
    op \in {"get_user_budgets", "get_user_accounts", "get_user_goals",
            "analyze_spending_patterns", "generate_forecast"}

\* the HTTP request of the operation c: the notification always holds the
\* userId, a gateway request for some operations only, an OCR request never
Wire(c) ==
    IF c.svc = "notifier" \/ (c.svc = "gateway" /\ CarriesUserId(c.op))
    THEN c ELSE [c EXCEPT !.user = ""]

----------------------------------------------------------------------------
(* AgentOrchestrator.process_document_and_register                         *)

\* up to "await self.mistral.extract_text(document_url)"; the client reads
\* its headers property, which raises without a key, while building the POST
PD_Begin(r) ==
    LET c == [Call("mistral", "extract_text") EXCEPT !.user = r.user_id]
    IN IF ~settings.mistral_ocr_api_key
       THEN DoneOn(NoLoc, c, "RuntimeError")
       ELSE Await("pd_ocr", NoLoc, <<c>>, <<Wire(c)>>)

\* a default text where the code's default is the empty text
ExtractedText_Placeholder(ocr_result) ==
    IF ocr_result.has_text THEN ocr_result.text ELSE <<"(sin texto)">>

\* ocr_result.get("text", "")
ExtractedText(ocr_result) ==
    IF ocr_result.has_text THEN ocr_result.text ELSE <<>>

\* from the OCR result o to "await self.gemini.chat(...)"
PD_AfterOcr(r, l, o) ==
    IF o.raised THEN Done(l, <<>>, RaiseOut(o.exc))
    ELSE LET extracted_text == ExtractedText(o.value)
             messages == UserPrompt(<<"prompt:document", " ">> \o extracted_text)
         IN IF extracted_text = <<>>
            THEN Done(l, <<>>,
                      ReturnOut([Result("error") EXCEPT
                          !.keys = {"status", "message"},
                          !.message = "No se pudo extraer texto del documento."]))
            ELSE Await("pd_model",
                       [l EXCEPT !.extracted_text = extracted_text,
                                 !.messages = messages],
                       <<ChatCall(messages)>>, ChatHttp(messages))

\* a handler that notifies as soon as the document is parsed, before the write
PD_AfterModel_NotifiesFirst(r, l, o) ==
    IF o.raised THEN Done(l, <<>>, RaiseOut(o.exc))
    ELSE LET parsed == ParseTransactionFromGemini(o.value)
             obj == parsed.obj
             n == Notification(r.user_id, "Transacción Registrada",
                      <<"Se registró un gasto de", NumStr(obj.amount),
                        "en", obj.category>>, "INFO")
         IN IF ~parsed.found \/ obj.keys = {}
            THEN Done(l, <<>>,
                      ReturnOut([Result("error") EXCEPT
                          !.keys = {"status", "message"},
                          !.message = "No se pudo interpretar el documento."]))
            ELSE IF ~({"amount", "category", "description"} \subseteq obj.keys)
            THEN Done(l, <<>>, RaiseOut("KeyError"))
            ELSE Await("pd_notify", [l EXCEPT !.parsed = obj], <<n>>, <<n>>)

\* from the model response o to "await self.gateway.register_transaction(...)"
PD_AfterModel(r, l, o) ==
    IF o.raised THEN Done(l, <<>>, RaiseOut(o.exc))
    ELSE LET parsed == ParseTransactionFromGemini(o.value)
             obj == parsed.obj
             c == [Call("gateway", "register_transaction") EXCEPT
                     !.user = r.user_id,
                     !.auth = GatewayAuthorization(r.token),
                     !.account = r.account_id,
                     !.amount = obj.amount,
                     !.type = "EXPENSE",
                     !.category = obj.category,
                     !.description = obj.description]
         IN IF ~parsed.found \/ obj.keys = {}
            THEN \* if not parsed
                 Done(l, <<>>,
                      ReturnOut([Result("error") EXCEPT
                          !.keys = {"status", "message"},
                          !.message = "No se pudo interpretar el documento."]))
            ELSE IF ~({"amount", "category", "description"} \subseteq obj.keys)
            THEN \* parsed["amount"], parsed["category"], parsed["description"]
                 Done(l, <<>>, RaiseOut("KeyError"))
            ELSE Await("pd_register", [l EXCEPT !.parsed = obj], <<c>>, <<Wire(c)>>)

\* a handler that returns after the registration, without the notification
PD_AfterRegister_NoNotification(r, l, o) ==
    IF o.raised THEN Done(l, <<>>, RaiseOut(o.exc))
    ELSE Done([l EXCEPT !.transaction = o.value], <<>>,
              ReturnOut([Result("success") EXCEPT
                  !.keys = {"status", "transaction", "ocr_text"},
                  !.transaction = o.value,
                  !.ocr_text = l.extracted_text]))

\* from the gateway's result o to "await self.notifier.send_notification(...)"
PD_AfterRegister(r, l, o) ==
    IF o.raised THEN Done(l, <<>>, RaiseOut(o.exc))
    ELSE LET n == Notification(r.user_id, "Transacción Registrada",
                      <<"Se registró un gasto de", NumStr(l.parsed.amount),
                        "en", l.parsed.category>>, "INFO")
         IN Await("pd_notify", [l EXCEPT !.transaction = o.value], <<n>>, <<n>>)

\* from the notifier's result o to the return
PD_AfterNotify(r, l, o) ==
    IF o.raised THEN Done(l, <<>>, RaiseOut(o.exc))
    ELSE Done(l, <<>>,
              ReturnOut([Result("success") EXCEPT
                  !.keys = {"status", "transaction", "ocr_text"},
                  !.transaction = l.transaction,
                  !.ocr_text = l.extracted_text]))

ProcessDocumentRequests ==
    { [NoReq EXCEPT !.workflow = "process_document", !.user_id = u,
                    !.token = t, !.account_id = a] :
        u \in Users, t \in Tokens, a \in Accounts }

PD_Start(i) ==
    /\ pc[i] = "idle"
    /\ \E r \in ProcessDocumentRequests : Step(i, r, <<>>, <<>>, PD_Begin(r))

PD_OcrReply(i) ==
    /\ pc[i] = "pd_ocr"
    /\ \E h \in OcrAnswers :
         Step(i, req[i], <<ExtractText(h)>>, <<h>>,
              PD_AfterOcr(req[i], loc[i], ExtractText(h)))

PD_ModelReply(i) ==
    /\ pc[i] = "pd_model"
    /\ \E o \in ChatOutcomes(loc[i].messages) :
         Step(i, req[i], <<o.ret>>, o.answered, PD_AfterModel(req[i], loc[i], o.ret))

PD_RegisterReply(i) ==
    /\ pc[i] = "pd_register"
    /\ \E h \in RegisterAnswers :
         Step(i, req[i], <<GatewayResult(h, "")>>, <<h>>,
              PD_AfterRegister(req[i], loc[i], GatewayResult(h, "")))

PD_NotifyReply(i) ==
    /\ pc[i] = "pd_notify"
    /\ \E h \in NotifyAnswers :
         Step(i, req[i], <<SendNotification(h)>>, <<h>>,
              PD_AfterNotify(req[i], loc[i], SendNotification(h)))

----------------------------------------------------------------------------
(* AgentOrchestrator.run_budget_audit                                      *)

BudgetLists == SeqsUpTo({"Alimentacion"}, MaxBudgets)
\* the amounts of the rows
TransactionLists ==
    { <<>>, <<-50>>, <<20>>, <<-50, -30>>, <<-50, 20, -30>>, <<0, 20>> }

BudgetsAnswers ==
    { Answer("ok", 200, "data", b) : b \in BudgetLists } \cup FailedAnswers(<<>>)

TransactionsAnswers ==
    { Answer("ok", 200, "data", t) : t \in TransactionLists } \cup FailedAnswers(<<>>)

\* a call through one client kept for every request, made for the first user
GatewayCall_SharedClient(r, op) ==
    [Call("gateway", op) EXCEPT !.user = "u1",
                                !.auth = GatewayAuthorization("tok1")]

GatewayCall(r, op) ==
    [Call("gateway", op) EXCEPT !.user = r.user_id,
                                !.auth = GatewayAuthorization(r.token)]

\* up to "await self.gateway.get_user_budgets(self.user_id)"
BA_Begin(r) ==
    LET c == GatewayCall(r, "get_user_budgets")
    IN Await("ba_budgets", NoLoc, <<c>>, <<Wire(c)>>)

\* on to "await self.gateway.get_recent_transactions(self.user_id, limit=20)"
BA_AfterBudgets(r, l, o) ==
    IF o.raised THEN Done(l, <<>>, RaiseOut(o.exc))
    ELSE LET c == GatewayCall(r, "get_recent_transactions")
         IN Await("ba_transactions", [l EXCEPT !.budgets = o.value], <<c>>, <<Wire(c)>>)

\* _build_budget_context, as the tokens of the prompt
BuildBudgetContext(budgets, transactions) ==
    <<"Presupuestos actuales:">> \o budgets \o <<"Transacciones recientes:">>
    \o [k \in 1..Len(transactions) |-> NumStr(transactions[k])]

\* "if budgets is None", which no list satisfies
NoBudgets_IsNone(budgets) == FALSE

\* "not budgets"
NoBudgets(budgets) == budgets = <<>>

\* on to "await self.gemini.chat(...)"
BA_AfterTransactions(r, l, o) ==
    IF o.raised THEN Done(l, <<>>, RaiseOut(o.exc))
    ELSE LET messages ==
                 UserPrompt(<<"prompt:audit", " ">>
                            \o BuildBudgetContext(l.budgets, o.value))
         IN IF NoBudgets(l.budgets)
            THEN Done([l EXCEPT !.transactions = o.value], <<>>,
                      ReturnOut([Result("no_budgets") EXCEPT
                          !.keys = {"status", "message"},
                          !.message = "Usuario sin presupuestos configurados."]))
            ELSE Await("ba_model",
                       [l EXCEPT !.transactions = o.value, !.messages = messages],
                       <<ChatCall(messages)>>, ChatHttp(messages))

AuditCompleted(l, analysis) ==
    ReturnOut([Result("completed") EXCEPT
        !.keys = {"status", "analysis", "budgets_reviewed"},
        !.analysis = analysis,
        !.budgets_reviewed = Len(l.budgets)])

\* an audit that notifies whatever the analysis says
BA_AfterModel_AlwaysNotifies(r, l, o) ==
    IF o.raised THEN Done(l, <<>>, RaiseOut(o.exc))
    ELSE LET analysis == ExtractGeminiText(o.value)
             n == Notification(r.user_id, "Alerta de Presupuesto",
                               Take(analysis, AlertMessageCap), "WARNING")
         IN Await("ba_notify", [l EXCEPT !.analysis = analysis], <<n>>, <<n>>)

\* on to the notification, or to the return
BA_AfterModel(r, l, o) ==
    IF o.raised THEN Done(l, <<>>, RaiseOut(o.exc))
    ELSE LET analysis == ExtractGeminiText(o.value)
             n == Notification(r.user_id, "Alerta de Presupuesto",
                               Take(analysis, AlertMessageCap), "WARNING")
         IN IF ContainsLower(analysis, "alerta") \/ ContainsLower(analysis, "excedido")
            THEN Await("ba_notify", [l EXCEPT !.analysis = analysis], <<n>>, <<n>>)
            ELSE Done([l EXCEPT !.analysis = analysis], <<>>,
                      AuditCompleted(l, analysis))

BA_AfterNotify(r, l, o) ==
    IF o.raised THEN Done(l, <<>>, RaiseOut(o.exc))
    ELSE Done(l, <<>>, AuditCompleted(l, l.analysis))

BudgetAuditRequests ==
    { [NoReq EXCEPT !.workflow = "budget_audit", !.user_id = u, !.token = t] :
        u \in Users, t \in Tokens }

BA_Start(i) ==
    /\ pc[i] = "idle"
    /\ \E r \in BudgetAuditRequests : Step(i, r, <<>>, <<>>, BA_Begin(r))

BA_BudgetsReply(i) ==
    /\ pc[i] = "ba_budgets"
    /\ \E h \in BudgetsAnswers :
         Step(i, req[i], <<GatewayResult(h, <<>>)>>, <<h>>,
              BA_AfterBudgets(req[i], loc[i], GatewayResult(h, <<>>)))

BA_TransactionsReply(i) ==
    /\ pc[i] = "ba_transactions"
    /\ \E h \in TransactionsAnswers :
         Step(i, req[i], <<GatewayResult(h, <<>>)>>, <<h>>,
              BA_AfterTransactions(req[i], loc[i], GatewayResult(h, <<>>)))

BA_ModelReply(i) ==
    /\ pc[i] = "ba_model"
    /\ \E o \in ChatOutcomes(loc[i].messages) :
         Step(i, req[i], <<o.ret>>, o.answered, BA_AfterModel(req[i], loc[i], o.ret))

BA_NotifyReply(i) ==
    /\ pc[i] = "ba_notify"
    /\ \E h \in NotifyAnswers :
         Step(i, req[i], <<SendNotification(h)>>, <<h>>,
              BA_AfterNotify(req[i], loc[i], SendNotification(h)))

----------------------------------------------------------------------------
(* AgentOrchestrator.generate_savings_plan                                 *)

AccountLists == { <<>>, <<1000>> }        \* the balances of the rows

AccountsAnswers ==
    { Answer("ok", 200, "data", a) : a \in AccountLists } \cup FailedAnswers(<<>>)

RECURSIVE SumSeq(_)
SumSeq(ns) == IF ns = <<>> THEN 0 ELSE Head(ns) + SumSeq(Tail(ns))

IsExpense(n) == n < 0

\* an average over every amount, whatever its sign
CalculateAvgExpense_AllAmounts(transactions) ==
    IF transactions = <<>> THEN 0
    ELSE LET mean == (SumSeq(transactions) * 100) \div Len(transactions)
         IN IF mean < 0 THEN 0 - mean ELSE mean

\* _calculate_avg_expense, in hundredths:
\* abs(sum(expenses) / len(expenses)) if expenses else 0.0
CalculateAvgExpense(transactions) ==
    LET expenses == SelectSeq(transactions, IsExpense)
    IN IF expenses = <<>> THEN 0
       ELSE ((0 - SumSeq(expenses)) * 100) \div Len(expenses)

\* up to "await self.gateway.get_user_accounts(self.user_id)"
SP_Begin(r) ==
    LET c == GatewayCall(r, "get_user_accounts")
    IN Await("sp_accounts", NoLoc, <<c>>, <<Wire(c)>>)

\* on to "await self.gateway.get_recent_transactions(self.user_id, limit=30)"
SP_AfterAccounts(r, l, o) ==
    IF o.raised THEN Done(l, <<>>, RaiseOut(o.exc))
    ELSE LET c == GatewayCall(r, "get_recent_transactions")
         IN Await("sp_transactions", [l EXCEPT !.accounts = o.value], <<c>>, <<Wire(c)>>)

\* on to "await self.gemini.chat(...)"
SP_AfterTransactions(r, l, o) ==
    IF o.raised THEN Done(l, <<>>, RaiseOut(o.exc))
    ELSE LET total_balance == SumSeq(l.accounts)
             avg_expense == CalculateAvgExpense(o.value)
             messages ==
                 UserPrompt(<<"prompt:savings", " ", ToString(r.amount), " ",
                              ToString(r.months), " ", ToString(total_balance),
                              " ", ToString(avg_expense)>>)
         IN Await("sp_model",
                  [l EXCEPT !.transactions = o.value, !.messages = messages],
                  <<ChatCall(messages)>>, ChatHttp(messages))

\* on to "await self.notifier.send_notification(...)"
SP_AfterModel(r, l, o) ==
    IF o.raised THEN Done(l, <<>>, RaiseOut(o.exc))
    ELSE LET plan == ExtractGeminiText(o.value)
             n == Notification(r.user_id, "Plan de Ahorro Generado",
                      <<"Tu plan para ahorrar", ToString(r.amount),
                        "está listo. Revisa los detalles.">>, "INFO")
         IN Await("sp_notify", [l EXCEPT !.analysis = plan], <<n>>, <<n>>)

\* a savings plan that also writes a transaction for the first instalment
SP_AfterNotify_Registers(r, l, o) ==
    LET c == [GatewayCall(r, "register_transaction") EXCEPT
                 !.amount = r.amount, !.type = "EXPENSE"]
    IN IF o.raised THEN Done(l, <<>>, RaiseOut(o.exc))
       ELSE Done(l, <<c>>,
                 ReturnOut([Result("success") EXCEPT
                     !.keys = {"status", "plan", "target", "months"},
                     !.plan = l.analysis,
                     !.target = r.amount,
                     !.months = r.months]))

\* on to the return
SP_AfterNotify(r, l, o) ==
    IF o.raised THEN Done(l, <<>>, RaiseOut(o.exc))
    ELSE Done(l, <<>>,
              ReturnOut([Result("success") EXCEPT
                  !.keys = {"status", "plan", "target", "months"},
                  !.plan = l.analysis,
                  !.target = r.amount,
                  !.months = r.months]))

SavingsPlanRequests ==
    { [NoReq EXCEPT !.workflow = "savings_plan", !.user_id = u, !.token = TokenOf(u),
                    !.amount = 1000, !.months = n] :
        u \in Users, n \in {0, 6} }

SP_Start(i) ==
    /\ pc[i] = "idle"
    /\ \E r \in SavingsPlanRequests : Step(i, r, <<>>, <<>>, SP_Begin(r))

SP_AccountsReply(i) ==
    /\ pc[i] = "sp_accounts"
    /\ \E h \in AccountsAnswers :
         Step(i, req[i], <<GatewayResult(h, <<>>)>>, <<h>>,
              SP_AfterAccounts(req[i], loc[i], GatewayResult(h, <<>>)))

SP_TransactionsReply(i) ==
    /\ pc[i] = "sp_transactions"
    /\ \E h \in TransactionsAnswers :
         Step(i, req[i], <<GatewayResult(h, <<>>)>>, <<h>>,
              SP_AfterTransactions(req[i], loc[i], GatewayResult(h, <<>>)))

SP_ModelReply(i) ==
    /\ pc[i] = "sp_model"
    /\ \E o \in ChatOutcomes(loc[i].messages) :
         Step(i, req[i], <<o.ret>>, o.answered, SP_AfterModel(req[i], loc[i], o.ret))

SP_NotifyReply(i) ==
    /\ pc[i] = "sp_notify"
    /\ \E h \in NotifyAnswers :
         Step(i, req[i], <<SendNotification(h)>>, <<h>>,
              SP_AfterNotify(req[i], loc[i], SendNotification(h)))

----------------------------------------------------------------------------
(* AgentOrchestrator.generate_financial_insights                           *)

MaxPatterns == 2     \* longest pattern list the gateway answers with

\* the patternType of the rows
PatternLists == SeqsUpTo({"anomaly", "recurring"}, MaxPatterns)
ForecastLists == { <<>>, <<"up">> }       \* the trend of the rows
\* the rows of goals: currentAmount and targetAmount
GoalLists ==
    { <<>>, <<[current |-> 50, target |-> 100]>>, <<[current |-> 50, target |-> 0]>> }

PatternsAnswers ==
    { Answer("ok", 200, "data", x) : x \in PatternLists } \cup FailedAnswers(<<>>)
ForecastAnswers ==
    { Answer("ok", 200, "data", x) : x \in ForecastLists } \cup FailedAnswers(<<>>)
GoalsAnswers ==
    { Answer("ok", 200, "data", x) : x \in GoalLists } \cup FailedAnswers(<<>>)

\* _format_patterns: one token per line, at most five lines
FormatPatterns(patterns) ==
    IF patterns = <<>> THEN <<"No hay patrones detectados.">>
    ELSE Take(patterns, 5)

\* _format_forecast
FormatForecast(forecast) ==
    IF forecast = <<>> THEN <<"No hay pronóstico disponible.">>
    ELSE Take(forecast, 3)

\* _format_budgets
FormatBudgets(budgets) ==
    IF budgets = <<>> THEN <<"Sin presupuestos configurados.">>
    ELSE Take(budgets, 5)

\* float(currentAmount) / float(targetAmount) * 100; "" or the exception
GoalProgress(g) == IF g.target = 0 THEN "ZeroDivisionError" ELSE ""

\* _format_goals: exc = "" and the lines, or the exception it raises
FormatGoals(goals) ==
    LET rows == Take(goals, 5)
    IN IF goals = <<>> THEN [exc |-> "", text |-> <<"Sin metas configuradas.">>]
       ELSE IF \E k \in 1..Len(rows) : GoalProgress(rows[k]) # ""
       THEN [exc |-> "ZeroDivisionError", text |-> <<>>]
       ELSE [exc |-> "",
             text |-> [k \in 1..Len(rows) |->
                         ToString((rows[k].current * 100) \div rows[k].target)]]

\* _format_accounts
FormatAccounts(accounts) ==
    IF accounts = <<>> THEN <<"Sin cuentas.">>
    ELSE <<"Balance total:", ToString(SumSeq(accounts)), ToString(Len(accounts))>>

\* up to "await self.gateway.analyze_spending_patterns(start_date, end_date)"
FI_Begin(r) ==
    LET c == GatewayCall(r, "analyze_spending_patterns")
    IN Await("fi_patterns", NoLoc, <<c>>, <<Wire(c)>>)

\* a handler that awaits the forecast and the budgets together
FI_AfterPatterns_Gather(r, l, o) ==
    IF o.raised THEN Done(l, <<>>, RaiseOut(o.exc))
    ELSE LET c == GatewayCall(r, "generate_forecast")
             b == GatewayCall(r, "get_user_budgets")
         IN Await("fi_forecast", [l EXCEPT !.patterns = o.value],
                  <<c, b>>, <<Wire(c), Wire(b)>>)

\* on to "await self.gateway.generate_forecast(months=3)"
FI_AfterPatterns(r, l, o) ==
    IF o.raised THEN Done(l, <<>>, RaiseOut(o.exc))
    ELSE LET c == GatewayCall(r, "generate_forecast")
         IN Await("fi_forecast", [l EXCEPT !.patterns = o.value], <<c>>, <<Wire(c)>>)

\* on to "await self.gateway.get_user_budgets(self.user_id)"
FI_AfterForecast(r, l, o) ==
    IF o.raised THEN Done(l, <<>>, RaiseOut(o.exc))
    ELSE LET c == GatewayCall(r, "get_user_budgets")
         IN Await("fi_budgets", [l EXCEPT !.forecast = o.value], <<c>>, <<Wire(c)>>)

\* on to "await self.gateway.get_user_goals(self.user_id)"
FI_AfterBudgets(r, l, o) ==
    IF o.raised THEN Done(l, <<>>, RaiseOut(o.exc))
    ELSE LET c == GatewayCall(r, "get_user_goals")
         IN Await("fi_goals", [l EXCEPT !.budgets = o.value], <<c>>, <<Wire(c)>>)

\* on to "await self.gateway.get_user_accounts(self.user_id)"
FI_AfterGoals(r, l, o) ==
    IF o.raised THEN Done(l, <<>>, RaiseOut(o.exc))
    ELSE LET c == GatewayCall(r, "get_user_accounts")
         IN Await("fi_accounts", [l EXCEPT !.goals = o.value], <<c>>, <<Wire(c)>>)

\* the context is built, on to "await self.gemini.chat(...)"
FI_AfterAccounts(r, l, o) ==
    IF o.raised THEN Done(l, <<>>, RaiseOut(o.exc))
    ELSE LET goals == FormatGoals(l.goals)
             messages ==
                 UserPrompt(<<"prompt:insights", " ">>
                            \o FormatPatterns(l.patterns)
                            \o FormatForecast(l.forecast)
                            \o FormatBudgets(l.budgets)
                            \o goals.text
                            \o FormatAccounts(o.value))
         IN IF goals.exc # ""
            THEN Done([l EXCEPT !.accounts = o.value], <<>>, RaiseOut(goals.exc))
            ELSE Await("fi_model",
                       [l EXCEPT !.accounts = o.value, !.messages = messages],
                       <<ChatCall(messages)>>, ChatHttp(messages))

\* on to "await self.notifier.send_notification(...)"
FI_AfterModel(r, l, o) ==
    IF o.raised THEN Done(l, <<>>, RaiseOut(o.exc))
    ELSE LET n == Notification(r.user_id, "Reporte Financiero Mensual",
                      <<"Tu análisis financiero personalizado está listo.">>,
                      "INFO")
         IN Await("fi_notify",
                  [l EXCEPT !.analysis = ExtractGeminiText(o.value)], <<n>>, <<n>>)

\* on to the return
FI_AfterNotify(r, l, o) ==
    IF o.raised THEN Done(l, <<>>, RaiseOut(o.exc))
    ELSE Done(l, <<>>,
              ReturnOut([Result("success") EXCEPT
                  !.keys = {"status", "patterns", "forecast", "analysis",
                            "generated_at"},
                  !.patterns = l.patterns,
                  !.forecast = l.forecast,
                  !.analysis = l.analysis]))

FinancialInsightsRequests ==
    { [NoReq EXCEPT !.workflow = "financial_insights", !.user_id = u,
                    !.token = TokenOf(u)] : u \in Users }

FI_Start(i) ==
    /\ pc[i] = "idle"
    /\ \E r \in FinancialInsightsRequests : Step(i, r, <<>>, <<>>, FI_Begin(r))

FI_PatternsReply(i) ==
    /\ pc[i] = "fi_patterns"
    /\ \E h \in PatternsAnswers :
         Step(i, req[i], <<GatewayResult(h, <<>>)>>, <<h>>,
              FI_AfterPatterns(req[i], loc[i], GatewayResult(h, <<>>)))

FI_ForecastReply(i) ==
    /\ pc[i] = "fi_forecast"
    /\ \E h \in ForecastAnswers :
         Step(i, req[i], <<GatewayResult(h, <<>>)>>, <<h>>,
              FI_AfterForecast(req[i], loc[i], GatewayResult(h, <<>>)))

FI_BudgetsReply(i) ==
    /\ pc[i] = "fi_budgets"
    /\ \E h \in BudgetsAnswers :
         Step(i, req[i], <<GatewayResult(h, <<>>)>>, <<h>>,
              FI_AfterBudgets(req[i], loc[i], GatewayResult(h, <<>>)))

FI_GoalsReply(i) ==
    /\ pc[i] = "fi_goals"
    /\ \E h \in GoalsAnswers :
         Step(i, req[i], <<GatewayResult(h, <<>>)>>, <<h>>,
              FI_AfterGoals(req[i], loc[i], GatewayResult(h, <<>>)))

FI_AccountsReply(i) ==
    /\ pc[i] = "fi_accounts"
    /\ \E h \in AccountsAnswers :
         Step(i, req[i], <<GatewayResult(h, <<>>)>>, <<h>>,
              FI_AfterAccounts(req[i], loc[i], GatewayResult(h, <<>>)))

FI_ModelReply(i) ==
    /\ pc[i] = "fi_model"
    /\ \E o \in ChatOutcomes(loc[i].messages) :
         Step(i, req[i], <<o.ret>>, o.answered, FI_AfterModel(req[i], loc[i], o.ret))

FI_NotifyReply(i) ==
    /\ pc[i] = "fi_notify"
    /\ \E h \in NotifyAnswers :
         Step(i, req[i], <<SendNotification(h)>>, <<h>>,
              FI_AfterNotify(req[i], loc[i], SendNotification(h)))

----------------------------------------------------------------------------
(* AgentOrchestrator.proactive_spending_alert                              *)

PredictionVolume == 15      \* len(predictions) > 15

\* the number of rows of the predictions the gateway answers with
PredictionCounts == {0, PredictionVolume, PredictionVolume + 1}

PredictionsAnswers ==
    { Answer("ok", 200, "data", n) : n \in PredictionCounts } \cup FailedAnswers(0)

IsAnomaly(patternType) == patternType = "anomaly"

\* the patterns whose patternType is "anomaly"
Anomalies(patterns) == SelectSeq(patterns, IsAnomaly)

\* up to "await self.gateway.get_predictions(limit=20)"
SA_Begin(r) ==
    LET c == GatewayCall(r, "get_predictions")
    IN Await("sa_predictions", NoLoc, <<c>>, <<Wire(c)>>)

\* on to "await self.gateway.get_user_budgets(self.user_id)"
SA_AfterPredictions(r, l, o) ==
    IF o.raised THEN Done(l, <<>>, RaiseOut(o.exc))
    ELSE LET c == GatewayCall(r, "get_user_budgets")
         IN Await("sa_budgets", [l EXCEPT !.predictions = o.value], <<c>>, <<Wire(c)>>)

\* on to "await self.gateway.analyze_spending_patterns(start_date, end_date)"
SA_AfterBudgets(r, l, o) ==
    IF o.raised THEN Done(l, <<>>, RaiseOut(o.exc))
    ELSE LET c == GatewayCall(r, "analyze_spending_patterns")
         IN Await("sa_patterns", [l EXCEPT !.budgets = o.value], <<c>>, <<Wire(c)>>)

\* a result map without its status
NoAlerts_NoStatus(alerts) ==
    ReturnOut([Result("") EXCEPT
        !.keys = {"anomalies_detected"},
        !.anomalies = Len(alerts)])

\* {"status": "no_alerts", "anomalies_detected": len(alerts)}
NoAlerts(alerts) ==
    ReturnOut([Result("no_alerts") EXCEPT
        !.keys = {"status", "anomalies_detected"},
        !.anomalies = Len(alerts)])

\* a test that takes 15 predictions for a high volume
ShouldAskModel_AtLeast(alerts, predictions) ==
    alerts # <<>> \/ predictions >= PredictionVolume

\* "if alerts or len(predictions) > 15"
ShouldAskModel(alerts, predictions) ==
    alerts # <<>> \/ predictions > PredictionVolume

\* on to "await self.gemini.chat(...)", or to the return
SA_AfterPatterns(r, l, o) ==
    IF o.raised THEN Done(l, <<>>, RaiseOut(o.exc))
    ELSE LET alerts == Anomalies(o.value)
             messages ==
                 UserPrompt(<<"prompt:risk", " ">> \o FormatPatterns(alerts)
                            \o <<ToString(l.predictions)>>
                            \o FormatBudgets(l.budgets))
         IN IF ShouldAskModel(alerts, l.predictions)
            THEN Await("sa_model",
                       [l EXCEPT !.patterns = o.value, !.messages = messages],
                       <<ChatCall(messages)>>, ChatHttp(messages))
            ELSE Done([l EXCEPT !.patterns = o.value], <<>>, NoAlerts(alerts))

\* on to "await self.notifier.send_notification(...)", or to the return
SA_AfterModel(r, l, o) ==
    IF o.raised THEN Done(l, <<>>, RaiseOut(o.exc))
    ELSE LET alert_message == Strip(ExtractGeminiText(o.value))
             n == Notification(r.user_id, "Alerta de Gasto", alert_message,
                               "WARNING")
         IN IF alert_message # <<"OK">>
            THEN Await("sa_notify", [l EXCEPT !.analysis = alert_message],
                       <<n>>, <<n>>)
            ELSE Done(l, <<>>, NoAlerts(Anomalies(l.patterns)))

\* on to the return
SA_AfterNotify(r, l, o) ==
    IF o.raised THEN Done(l, <<>>, RaiseOut(o.exc))
    ELSE Done(l, <<>>,
              ReturnOut([Result("alert_sent") EXCEPT
                  !.keys = {"status", "message", "anomalies"},
                  !.alert = l.analysis,
                  !.anomalies = Len(Anomalies(l.patterns))]))

SpendingAlertRequests ==
    { [NoReq EXCEPT !.workflow = "spending_alert", !.user_id = u, !.token = TokenOf(u)] :
        u \in Users }

SA_Start(i) ==
    /\ pc[i] = "idle"
    /\ \E r \in SpendingAlertRequests : Step(i, r, <<>>, <<>>, SA_Begin(r))

SA_PredictionsReply(i) ==
    /\ pc[i] = "sa_predictions"
    /\ \E h \in PredictionsAnswers :
         Step(i, req[i], <<GatewayResult(h, 0)>>, <<h>>,
              SA_AfterPredictions(req[i], loc[i], GatewayResult(h, 0)))

SA_BudgetsReply(i) ==
    /\ pc[i] = "sa_budgets"
    /\ \E h \in BudgetsAnswers :
         Step(i, req[i], <<GatewayResult(h, <<>>)>>, <<h>>,
              SA_AfterBudgets(req[i], loc[i], GatewayResult(h, <<>>)))

SA_PatternsReply(i) ==
    /\ pc[i] = "sa_patterns"
    /\ \E h \in PatternsAnswers :
         Step(i, req[i], <<GatewayResult(h, <<>>)>>, <<h>>,
              SA_AfterPatterns(req[i], loc[i], GatewayResult(h, <<>>)))

SA_ModelReply(i) ==
    /\ pc[i] = "sa_model"
    /\ \E o \in ChatOutcomes(loc[i].messages) :
         Step(i, req[i], <<o.ret>>, o.answered, SA_AfterModel(req[i], loc[i], o.ret))

SA_NotifyReply(i) ==
    /\ pc[i] = "sa_notify"
    /\ \E h \in NotifyAnswers :
         Step(i, req[i], <<SendNotification(h)>>, <<h>>,
              SA_AfterNotify(req[i], loc[i], SendNotification(h)))

----------------------------------------------------------------------------
(* AgentOrchestrator.smart_categorize_transaction                          *)

\* binding the arguments of a call of GatewayClient.classify_transaction
\* (self, text, amount): "" when they bind, else the exception
ClassifyTransactionBind(positional) ==
    IF positional = 2 THEN "" ELSE "TypeError"

\* the handler's first statement is
\*   await self.gateway.classify_transaction(transaction_text)
\* one positional argument; when the call does not bind, the exception
\* leaves the handler before any request is sent, and the statements after
\* it (the confidence branch, the registration, the notification) never run
SC_Begin(r) ==
    LET c == [GatewayCall(r, "classify_transaction") EXCEPT
                 !.text = r.text, !.amount = r.amount]
    IN IF ClassifyTransactionBind(1) # ""
       THEN Done(NoLoc, <<>>, RaiseOut(ClassifyTransactionBind(1)))
       ELSE Await("sc_classify", NoLoc, <<c>>, <<Wire(c)>>)

SmartCategorizeRequests ==
    { [NoReq EXCEPT !.workflow = "smart_categorize", !.user_id = u, !.token = t,
                    !.account_id = a, !.amount = m, !.text = <<"Taxi">>] :
        u \in Users, t \in Tokens, a \in Accounts, m \in {30, -12} }

SC_Start(i) ==
    /\ pc[i] = "idle"
    /\ \E r \in SmartCategorizeRequests : Step(i, r, <<>>, <<>>, SC_Begin(r))

----------------------------------------------------------------------------
(* MockAgent, the Fallback Agent                                           *)

\* self.responses and self.financial_tips, by their first words
Responses ==
    {"Entiendo tu consulta", "Excelente pregunta", "He analizado",
     "Segun tus patrones", "Perfecto", "Interesante", "Basandome en tu historial",
     "Excelente progreso"}
FinancialTips == {"Tip", "Consejo", "Recomendacion", "Meta"}

\* the keyword buckets of _generate_response, in the order they are tried
KeywordBuckets ==
    << [words |-> {"hola", "buenos", "saludos"}, reply |-> "canned:saludo"],
       [words |-> {"ahorro", "ahorrar", "guardar"}, reply |-> "canned:ahorro"],
       [words |-> {"gasto", "gastos", "gastando"}, reply |-> "canned:gasto"],
       [words |-> {"presupuesto", "budget"}, reply |-> "canned:presupuesto"],
       [words |-> {"meta", "objetivo", "goal"}, reply |-> "canned:meta"],
       [words |-> {"inversión", "invertir", "investment"}, reply |-> "canned:inversion"],
       [words |-> {"deuda", "deber", "préstamo"}, reply |-> "canned:deuda"],
       [words |-> {"ingreso", "ingresos", "salario"}, reply |-> "canned:ingreso"] >>

BucketMatches(message, b) == \E w \in KeywordBuckets[b].words : ContainsLower(message, w)

\* MockAgent._generate_response: the texts it can produce for a message
GenerateResponse(message) ==
    IF \E b \in 1..Len(KeywordBuckets) : BucketMatches(message, b)
    THEN LET b == CHOOSE b \in 1..Len(KeywordBuckets) :
                     /\ BucketMatches(message, b)
                     /\ \A c \in 1..(b - 1) : ~BucketMatches(message, c)
         IN { <<KeywordBuckets[b].reply>> }
    ELSE \* random.choice(self.responses), random.choice(self.financial_tips)
         { <<resp, "\n\n", tip>> : resp \in Responses, tip \in FinancialTips }

\* MockAgent.chat: the responses it can return for the payload
MockAgentChat(payload) ==
    LET last_message == IF payload # <<>> THEN payload[Len(payload)].text ELSE <<>>
    IN { Candidates(t) : t \in GenerateResponse(last_message) }


----------------------------------------------------------------------------
(* The chat operations of the transports                                   *)

MaxMessages == 2     \* longest message list of a chat request

ChatRoles == {"user", "system", "admin"}
ChatContents == { <<"Hola">>, <<" ", "consulta", " ">>, <<" ">> }

\* a message of a chat request: role and content
ChatMessages == { Message(ro, "content", c) : ro \in ChatRoles, c \in ChatContents }

ChatRequests(workflow) ==
    { [NoReq EXCEPT !.workflow = workflow, !.messages = ms, !.text = p] :
        ms \in SeqsUpTo(ChatMessages, MaxMessages),
        p \in { <<>>, <<" ">>, <<" ", "Hola">> } }

\* _format_gemini_response, and the same loop in the graph mutations
FormatGeminiResponse(data) ==
    [k \in 1..Len(data) |-> Strip(JoinSp(data[k]))]

ChatReturn(data) ==
    ReturnOut([Result("") EXCEPT !.keys = {"messages", "raw"},
                                 !.messages = FormatGeminiResponse(data)])

\* [{"text": m.content, "role": m.role} for m in messages]
TextPayload(messages) ==
    [k \in 1..Len(messages) |-> Message(messages[k].role, "text", messages[k].text)]

\* ChatMessageModel.validate_model: the role is lower-cased and trimmed (the
\* roles of the model are so already), the content trimmed
ValidMessage(m) == m.role \in {"user", "model", "system"} /\ Strip(m.text) # <<>>

\* a message holding the prompt as it came
PromptMessage_Raw(prompt) == Message("user", "content", prompt)

\* ChatMessageModel(role="user", content=self.prompt.strip())
PromptMessage(prompt) == Message("user", "content", Strip(prompt))

\* a validation that takes a blank prompt for a message
ValidateRequest_BlankPrompt(r) ==
    IF \E k \in 1..Len(r.messages) : ~ValidMessage(r.messages[k])
    THEN [ok |-> FALSE, messages |-> <<>>]
    ELSE IF r.messages # <<>>
    THEN [ok |-> TRUE,
          messages |-> [k \in 1..Len(r.messages) |->
                          [r.messages[k] EXCEPT !.text = Strip(@)]]]
    ELSE IF r.text # <<>>
    THEN [ok |-> TRUE, messages |-> <<PromptMessage(r.text)>>]
    ELSE [ok |-> FALSE, messages |-> <<>>]

\* ChatRequest after validation: ok = FALSE is the validation error (422);
\* r.text is the prompt, <<>> also standing for an absent one
ValidateRequest(r) ==
    IF \E k \in 1..Len(r.messages) : ~ValidMessage(r.messages[k])
    THEN [ok |-> FALSE, messages |-> <<>>]
    ELSE IF r.messages # <<>>
    THEN [ok |-> TRUE,
          messages |-> [k \in 1..Len(r.messages) |->
                          [r.messages[k] EXCEPT !.text = Strip(@)]]]
    ELSE IF Strip(r.text) # <<>>
    THEN [ok |-> TRUE, messages |-> <<PromptMessage(r.text)>>]
    ELSE [ok |-> FALSE, messages |-> <<>>]

\* a name the module api/rest.py uses: "" when it is bound there, else the
\* exception its use raises.  rest.py imports httpx, fastapi, pydantic, the
\* orchestrator and the two clients; it uses logger in _call_gemini
RestGlobal(name) ==
    IF name \in {"httpx", "APIRouter", "HTTPException", "Header", "status",
                 "BaseModel", "HttpUrl", "model_validator",
                 "AgentOrchestrator", "GeminiClient", "MistralOCRClient"}
    THEN "" ELSE "NameError"

InvalidOut == [kind |-> "invalid", exc |-> "", result |-> Result("")]

\* rest.chat_endpoint with _call_gemini, up to "await client.chat(payload)"
RC_Begin(r) ==
    LET v == ValidateRequest(r)
        payload == TextPayload(v.messages)
    IN IF ~v.ok THEN { Done(NoLoc, <<>>, InvalidOut) }
       ELSE IF ~settings.gemini_api_key
       THEN \* logger.warning(...); mock = MockAgent(); return await mock.chat(payload)
            IF RestGlobal("logger") # ""
            THEN { Done(NoLoc, <<>>, RaiseOut(RestGlobal("logger"))) }
            ELSE { Done(NoLoc, <<>>, ChatReturn(d)) : d \in MockAgentChat(payload) }
       ELSE { Await("rc_model", [NoLoc EXCEPT !.messages = payload],
                    <<ChatCall(payload)>>, ChatHttp(payload)) }

\* _call_gemini from the result o of client.chat on, and the formatting
RC_AfterModel(r, l, o) ==
    IF o.raised /\ (o.exc = "RuntimeError" \/ IsHTTPError(o.exc))
    THEN \* logger.error(...); mock = MockAgent(); return await mock.chat(payload)
         IF RestGlobal("logger") # ""
         THEN { Done(l, <<>>, RaiseOut(RestGlobal("logger"))) }
         ELSE { Done(l, <<>>, ChatReturn(d)) : d \in MockAgentChat(l.messages) }
    ELSE IF o.raised THEN { Done(l, <<>>, RaiseOut(o.exc)) }
    ELSE { Done(l, <<>>, ChatReturn(o.value)) }

\* graphql/schema.py Mutation.chat, up to "await client.chat(payload)"
GC_Begin(r) ==
    LET payload == TextPayload(r.messages)
    IN IF ~settings.gemini_api_key
       THEN { Done(NoLoc, <<>>, ChatReturn(d)) : d \in MockAgentChat(payload) }
       ELSE { Await("gc_model", [NoLoc EXCEPT !.messages = payload],
                    <<ChatCall(payload)>>, ChatHttp(payload)) }

GC_AfterModel(r, l, o) ==
    IF o.raised /\ (o.exc = "RuntimeError" \/ IsHTTPError(o.exc))
    THEN { Done(l, <<>>, ChatReturn(d)) : d \in MockAgentChat(l.messages) }
    ELSE IF o.raised THEN { Done(l, <<>>, RaiseOut(o.exc)) }
    ELSE { Done(l, <<>>, ChatReturn(o.value)) }

\* services/gemini_client.py Mutation.chat: {"role", "parts": [{"text"}]},
\* the role "system" sent as "user"
PartsPayload(messages) ==
    [k \in 1..Len(messages) |->
        Message(IF messages[k].role = "system" THEN "user" ELSE messages[k].role,
                "parts", messages[k].text)]

LC_Begin(r) ==
    LET payload == PartsPayload(r.messages)
    IN Await("lc_model", [NoLoc EXCEPT !.messages = payload],
             <<ChatCall(payload)>>, ChatHttp(payload))

LC_AfterModel(r, l, o) ==
    IF o.raised /\ (o.exc = "RuntimeError" \/ IsHTTPError(o.exc))
    THEN Done(l, <<>>, RaiseOut("ValueError"))
    ELSE IF o.raised THEN Done(l, <<>>, RaiseOut(o.exc))
    ELSE Done(l, <<>>, ChatReturn(o.value))

RC_Start(i) ==
    /\ pc[i] = "idle"
    /\ \E r \in ChatRequests("rest_chat") :
         \E e \in RC_Begin(r) : Step(i, r, <<>>, <<>>, e)

RC_ModelReply(i) ==
    /\ pc[i] = "rc_model"
    /\ \E o \in ChatOutcomes(loc[i].messages) :
         \E e \in RC_AfterModel(req[i], loc[i], o.ret) :
             Step(i, req[i], <<o.ret>>, o.answered, e)

GC_Start(i) ==
    /\ pc[i] = "idle"
    /\ \E r \in ChatRequests("graph_chat") :
         /\ r.text = <<>>
         /\ \E e \in GC_Begin(r) : Step(i, r, <<>>, <<>>, e)

GC_ModelReply(i) ==
    /\ pc[i] = "gc_model"
    /\ \E o \in ChatOutcomes(loc[i].messages) :
         \E e \in GC_AfterModel(req[i], loc[i], o.ret) :
             Step(i, req[i], <<o.ret>>, o.answered, e)

LC_Start(i) ==
    /\ pc[i] = "idle"
    /\ \E r \in ChatRequests("client_chat") :
         /\ r.text = <<>>
         /\ Step(i, r, <<>>, <<>>, LC_Begin(r))

LC_ModelReply(i) ==
    /\ pc[i] = "lc_model"
    /\ \E o \in ChatOutcomes(loc[i].messages) :
         Step(i, req[i], <<o.ret>>, o.answered, LC_AfterModel(req[i], loc[i], o.ret))

----------------------------------------------------------------------------
(* The REST endpoints (api/rest.py)                                        *)

HTTP_502_BAD_GATEWAY == 502

\* the exceptions _call_mistral and _call_gemini catch:
\* except (RuntimeError, httpx.HTTPError)
IsCaughtByRest(e) == e = "RuntimeError" \/ IsHTTPError(e)

\* ocr_endpoint with _call_mistral, up to "await client.extract_text(...)";
\* the RuntimeError of the headers property is raised inside the try
OC_Begin(r) ==
    LET c == Call("mistral", "extract_text")
    IN IF ~settings.mistral_ocr_api_key
       THEN [DoneOn(NoLoc, c, "RuntimeError") EXCEPT
                !.outcome = RaiseOut("HTTPException")]
       ELSE Await("oc_ocr", NoLoc, <<c>>, <<Wire(c)>>)

\* from the OCR result o to the response
OC_AfterOcr(r, l, o) ==
    IF o.raised /\ IsCaughtByRest(o.exc)
    THEN \* raise HTTPException(status_code=status.HTTP_502_BAD_GATEWAY, ...)
         Done(l, <<>>, RaiseOut("HTTPException"))
    ELSE IF o.raised THEN Done(l, <<>>, RaiseOut(o.exc))
    ELSE Done(l, <<>>,
              ReturnOut([Result("") EXCEPT
                  !.keys = {"text", "confidence", "raw"},
                  !.ocr_text = ExtractedText(o.value)]))

OcrRequests == { [NoReq EXCEPT !.workflow = "rest_ocr"] }

OC_Start(i) ==
    /\ pc[i] = "idle"
    /\ \E r \in OcrRequests : Step(i, r, <<>>, <<>>, OC_Begin(r))

OC_OcrReply(i) ==
    /\ pc[i] = "oc_ocr"
    /\ \E h \in OcrAnswers :
         Step(i, req[i], <<ExtractText(h)>>, <<h>>,
              OC_AfterOcr(req[i], loc[i], ExtractText(h)))

\* the status of the HTTP response of an endpoint of the router, from what
\* its handler did: the workflow endpoints are
\*   orchestrator = AgentOrchestrator(user_id=user_id, token=authorization)
\*   result = await orchestrator.<workflow>(...)
\*   return <Response>(**result)
\* without a try; the application registers no exception handler, so an
\* exception other than HTTPException is answered 500
RestEndpointStatus(out) ==
    CASE out.kind = "return" -> 200
      [] out.kind = "invalid" -> 422
      [] out.kind = "raise" /\ out.exc = "HTTPException" -> HTTP_502_BAD_GATEWAY
      [] OTHER -> 500

----------------------------------------------------------------------------
(* The graph mutations audit_budget and generate_savings_plan              *)
(* (graphql/schema.py): the orchestrator's workflow inside try, and        *)
(* "except Exception" answering with the MockAgent's result.               *)

\* MockAgent.analyze_budget
AnalyzeBudget ==
    [Result("SUCCESS") EXCEPT
        !.keys = {"status", "analysis", "budgets_reviewed", "message"},
        !.analysis = <<"He revisado tus presupuestos.">>,
        !.budgets_reviewed = 3,
        !.message = "Auditoría completada. Revisa las recomendaciones arriba."]

\* a / b of Python, in whole numbers: the quotient, or the exception
PyDivide(a, b) ==
    IF b = 0 THEN [exc |-> "ZeroDivisionError", value |-> 0]
    ELSE [exc |-> "", value |-> a \div b]

\* a monthly amount computed without looking at months
Monthly_Unguarded(target, months) == PyDivide(target * 100, months)

\* monthly = target / months if months > 0 else 0, in hundredths
Monthly(target, months) ==
    IF months > 0 THEN PyDivide(target * 100, months)
    ELSE [exc |-> "", value |-> 0]

\* MockAgent.generate_savings_plan: the plan holds the target, the months
\* and the monthly amount
MockGenerateSavingsPlan(target, months) ==
    LET monthly == Monthly(target, months)
    IN IF monthly.exc # "" THEN RaiseOut(monthly.exc)
       ELSE ReturnOut([Result("SUCCESS") EXCEPT
                !.keys = {"status", "plan", "target", "months"},
                !.plan = <<"Plan de Ahorro Personalizado", ToString(target),
                           ToString(months), ToString(monthly.value)>>,
                !.target = target,
                !.months = months])

\* the await points of the orchestrator and of the mutation around it
GraphPcs ==
    { <<"ba_budgets", "ga_budgets">>, <<"ba_transactions", "ga_transactions">>,
      <<"ba_model", "ga_model">>, <<"ba_notify", "ga_notify">>,
      <<"sp_accounts", "gs_accounts">>, <<"sp_transactions", "gs_transactions">>,
      <<"sp_model", "gs_model">>, <<"sp_notify", "gs_notify">>,
      <<"done", "done">> }

GraphPc(p) == (CHOOSE x \in GraphPcs : x[1] = p)[2]

\* a mutation that lets the failure of the workflow through
OrFallback_Propagates(r, e) == [e EXCEPT !.pc = GraphPc(e.pc)]

\* try: the workflow's segment e; except Exception: the MockAgent's result
OrFallback(r, e) ==
    IF e.pc = "done" /\ e.outcome.kind = "raise"
    THEN [e EXCEPT !.outcome =
            IF r.workflow = "graph_audit_budget" THEN ReturnOut(AnalyzeBudget)
            ELSE MockGenerateSavingsPlan(r.amount, r.months)]
    ELSE [e EXCEPT !.pc = GraphPc(e.pc)]

\* the segment of the orchestrator that follows its await point p
GraphContinue(p, r, l, o) ==
    CASE p = "ba_budgets" -> BA_AfterBudgets(r, l, o)
      [] p = "ba_transactions" -> BA_AfterTransactions(r, l, o)
      [] p = "ba_model" -> BA_AfterModel(r, l, o)
      [] p = "ba_notify" -> BA_AfterNotify(r, l, o)
      [] p = "sp_accounts" -> SP_AfterAccounts(r, l, o)
      [] p = "sp_transactions" -> SP_AfterTransactions(r, l, o)
      [] p = "sp_model" -> SP_AfterModel(r, l, o)
      [] p = "sp_notify" -> SP_AfterNotify(r, l, o)

GraphGatewayAnswers(p) ==
    CASE p = "ba_budgets" -> BudgetsAnswers
      [] p = "sp_accounts" -> AccountsAnswers
      [] OTHER -> TransactionsAnswers

GraphMutationRequests ==
    { [NoReq EXCEPT !.workflow = "graph_audit_budget", !.user_id = "u1",
                    !.token = TokenOf("u1")] }
    \cup { [NoReq EXCEPT !.workflow = "graph_savings_plan", !.user_id = "u1",
                         !.token = TokenOf("u1"), !.amount = 1000, !.months = n] :
             n \in {-1, 0, 6} }

GM_Start(i) ==
    /\ pc[i] = "idle"
    /\ \E r \in GraphMutationRequests :
         Step(i, r, <<>>, <<>>,
              OrFallback(r, IF r.workflow = "graph_audit_budget"
                            THEN BA_Begin(r) ELSE SP_Begin(r)))

GM_GatewayReply(i) ==
    \E p \in {"ba_budgets", "ba_transactions", "sp_accounts", "sp_transactions"} :
        /\ pc[i] = GraphPc(p)
        /\ \E h \in GraphGatewayAnswers(p) :
             Step(i, req[i], <<GatewayResult(h, <<>>)>>, <<h>>,
                  OrFallback(req[i], GraphContinue(p, req[i], loc[i],
                                                   GatewayResult(h, <<>>))))

GM_ModelReply(i) ==
    \E p \in {"ba_model", "sp_model"} :
        /\ pc[i] = GraphPc(p)
        /\ \E o \in ChatOutcomes(loc[i].messages) :
             Step(i, req[i], <<o.ret>>, o.answered,
                  OrFallback(req[i], GraphContinue(p, req[i], loc[i], o.ret)))

GM_NotifyReply(i) ==
    \E p \in {"ba_notify", "sp_notify"} :
        /\ pc[i] = GraphPc(p)
        /\ \E h \in NotifyAnswers :
             Step(i, req[i], <<SendNotification(h)>>, <<h>>,
                  OrFallback(req[i], GraphContinue(p, req[i], loc[i],
                                                   SendNotification(h))))

----------------------------------------------------------------------------
(* The specification                                                       *)

SettingsValues ==
    [gemini_api_key : BOOLEAN, mistral_ocr_api_key : BOOLEAN,
     gemini_dev_mode : BOOLEAN]

Init ==
    /\ settings \in SettingsValues
    /\ gemini_impl \in {"GeminiClient", "AsyncMock"}
    \* gemini_dev_mode is read by GeminiClient.chat only
    /\ (gemini_impl = "AsyncMock" => ~settings.gemini_dev_mode)
    /\ pc = [i \in Invocations |-> "idle"]
    /\ req = [i \in Invocations |-> NoReq]
    /\ loc = [i \in Invocations |-> NoLoc]
    /\ calls = [i \in Invocations |-> <<>>]
    /\ http = [i \in Invocations |-> <<>>]
    /\ replies = [i \in Invocations |-> <<>>]
    /\ results = [i \in Invocations |-> <<>>]
    /\ outcome = [i \in Invocations |-> NoOutcome]

Next ==
    \E i \in DOMAIN pc :
        \/ PD_Start(i)
        \/ PD_OcrReply(i)
        \/ PD_ModelReply(i)
        \/ PD_RegisterReply(i)
        \/ PD_NotifyReply(i)
        \/ BA_Start(i)
        \/ BA_BudgetsReply(i)
        \/ BA_TransactionsReply(i)
        \/ BA_ModelReply(i)
        \/ BA_NotifyReply(i)
        \/ SC_Start(i)
        \/ RC_Start(i)
        \/ RC_ModelReply(i)
        \/ GC_Start(i)
        \/ GC_ModelReply(i)
        \/ LC_Start(i)
        \/ LC_ModelReply(i)
        \/ OC_Start(i)
        \/ OC_OcrReply(i)
        \/ SP_Start(i)
        \/ SP_AccountsReply(i)
        \/ SP_TransactionsReply(i)
        \/ SP_ModelReply(i)
        \/ SP_NotifyReply(i)
        \/ FI_Start(i)
        \/ FI_PatternsReply(i)
        \/ FI_ForecastReply(i)
        \/ FI_BudgetsReply(i)
        \/ FI_GoalsReply(i)
        \/ FI_AccountsReply(i)
        \/ FI_ModelReply(i)
        \/ FI_NotifyReply(i)
        \/ SA_Start(i)
        \/ SA_PredictionsReply(i)
        \/ SA_BudgetsReply(i)
        \/ SA_PatternsReply(i)
        \/ SA_ModelReply(i)
        \/ SA_NotifyReply(i)
        \/ GM_Start(i)
        \/ GM_GatewayReply(i)
        \/ GM_ModelReply(i)
        \/ GM_NotifyReply(i)

Spec == Init /\ [][Next]_vars

----------------------------------------------------------------------------
(* Two requests served at once.  Each REST handler builds its own          *)
(* AgentOrchestrator(user_id=..., token=...), whose __init__ builds its own *)
(* GatewayClient, GeminiClient, MistralOCRClient and NotificationClient;   *)
(* the event loop runs one handler until its next await and then any other. *)

ConcurrentInvocations == {"r1", "r2"}

\* the user of each of the two requests
UserOf(i) == IF i = "r1" THEN "u1" ELSE "u2"

\* the model responses of the two-request runs
ConcurrentResponses ==
    { Candidates(t) : t \in {TxJson, <<"OK">>, <<"ALERTA", " ", "gasto">>} }

\* the HTTP answers of the two-request runs: a 200 with data or a 500
ConcurrentAnswer(h) ==
    /\ h.net = "ok"
    /\ \/ h.status = 200 /\ h.body = "data"
       \/ h.status = 500 /\ h.body = "errors"

\* the values the operation c hands back in the two-request runs
ConcurrentValue(c, v) ==
    CASE c.op = "chat" ->
             \* GeminiClient.chat answers what its code makes of the messages
             gemini_impl = "GeminiClient" \/ v \in ConcurrentResponses
      [] c.op = "extract_text" -> v.text # <<>>
      [] c.op \in {"get_user_budgets", "get_recent_transactions",
                   "get_user_accounts", "generate_forecast"} -> Len(v) = 1
      [] c.op = "get_user_goals" -> Len(v) = 1 /\ v[1].target # 0
      [] c.op = "analyze_spending_patterns" -> v = <<"anomaly">>
      [] c.op = "get_predictions" -> v = 0
      [] c.op = "register_transaction" -> v = "t2"
      [] OTHER -> TRUE

\* the request of invocation i and the answers it was given so far
ConcurrentInputs(i) ==
    /\ req[i].user_id = UserOf(i)
    /\ req[i].token = TokenOf(UserOf(i))
    /\ \A k \in 1..Len(results[i]) :
         /\ \A a \in 1..Len(results[i][k].answered) :
              ConcurrentAnswer(results[i][k].answered[a])
         /\ ~results[i][k].raised =>
              ConcurrentValue(calls[i][k], results[i][k].value)

InitConcurrent ==
    /\ settings = [gemini_api_key |-> TRUE, mistral_ocr_api_key |-> TRUE,
                   gemini_dev_mode |-> FALSE]
    /\ gemini_impl \in {"GeminiClient", "AsyncMock"}
    /\ pc = [i \in ConcurrentInvocations |-> "idle"]
    /\ req = [i \in ConcurrentInvocations |-> NoReq]
    /\ loc = [i \in ConcurrentInvocations |-> NoLoc]
    /\ calls = [i \in ConcurrentInvocations |-> <<>>]
    /\ http = [i \in ConcurrentInvocations |-> <<>>]
    /\ replies = [i \in ConcurrentInvocations |-> <<>>]
    /\ results = [i \in ConcurrentInvocations |-> <<>>]
    /\ outcome = [i \in ConcurrentInvocations |-> NoOutcome]

\* any handler that is at an await point goes on, whatever the other does
NextConcurrent ==
    \E i \in DOMAIN pc :
        \/ PD_Start(i) /\ ConcurrentInputs(i)'
        \/ PD_OcrReply(i) /\ ConcurrentInputs(i)'
        \/ PD_ModelReply(i) /\ ConcurrentInputs(i)'
        \/ PD_RegisterReply(i) /\ ConcurrentInputs(i)'
        \/ PD_NotifyReply(i) /\ ConcurrentInputs(i)'
        \/ BA_Start(i) /\ ConcurrentInputs(i)'
        \/ BA_BudgetsReply(i) /\ ConcurrentInputs(i)'
        \/ BA_TransactionsReply(i) /\ ConcurrentInputs(i)'
        \/ BA_ModelReply(i) /\ ConcurrentInputs(i)'
        \/ BA_NotifyReply(i) /\ ConcurrentInputs(i)'
        \/ SC_Start(i) /\ ConcurrentInputs(i)'
        \/ SP_Start(i) /\ ConcurrentInputs(i)'
        \/ SP_AccountsReply(i) /\ ConcurrentInputs(i)'
        \/ SP_TransactionsReply(i) /\ ConcurrentInputs(i)'
        \/ SP_ModelReply(i) /\ ConcurrentInputs(i)'
        \/ SP_NotifyReply(i) /\ ConcurrentInputs(i)'
        \/ FI_Start(i) /\ ConcurrentInputs(i)'
        \/ FI_PatternsReply(i) /\ ConcurrentInputs(i)'
        \/ FI_ForecastReply(i) /\ ConcurrentInputs(i)'
        \/ FI_BudgetsReply(i) /\ ConcurrentInputs(i)'
        \/ FI_GoalsReply(i) /\ ConcurrentInputs(i)'
        \/ FI_AccountsReply(i) /\ ConcurrentInputs(i)'
        \/ FI_ModelReply(i) /\ ConcurrentInputs(i)'
        \/ FI_NotifyReply(i) /\ ConcurrentInputs(i)'
        \/ SA_Start(i) /\ ConcurrentInputs(i)'
        \/ SA_PredictionsReply(i) /\ ConcurrentInputs(i)'
        \/ SA_BudgetsReply(i) /\ ConcurrentInputs(i)'
        \/ SA_PatternsReply(i) /\ ConcurrentInputs(i)'
        \/ SA_ModelReply(i) /\ ConcurrentInputs(i)'
        \/ SA_NotifyReply(i) /\ ConcurrentInputs(i)'

SpecConcurrent == InitConcurrent /\ [][NextConcurrent]_vars

----------------------------------------------------------------------------
(* Vocabulary of the properties                                            *)

\* the k-th operation invocation i invoked has handed back a value
ReturnedAt(i, k) == k <= Len(results[i]) /\ ~results[i][k].raised

\* invocation i has returned a result map with this status
ReturnsStatus(i, status) ==
    /\ pc[i] = "done"
    /\ outcome[i].kind = "return"
    /\ outcome[i].result.status = status

OpsOf(i) == [k \in 1..Len(calls[i]) |-> calls[i][k].op]

Invoked(i, op) == \E k \in 1..Len(calls[i]) : calls[i][k].op = op

\* the text has a "{" with a "}" somewhere after it
HasBraceSpan(text) ==
    \E a, b \in 1..Len(text) : a < b /\ text[a] = "{" /\ text[b] = "}"

\* between its first "{" and its last "}" the text is one JSON object
EmbedsJsonObject(text) ==
    \E a, b \in 1..Len(text) :
        /\ a < b /\ text[a] = "{" /\ text[b] = "}"
        /\ \A k \in 1..(a - 1) : text[k] # "{"
        /\ \A k \in (b + 1)..Len(text) : text[k] # "}"
        /\ \A k \in (a + 1)..(b - 1) : text[k] \in MemberTokens \cup {" "}

\* the member of the key that counts: the last one
MemberOf(text, key) ==
    text[CHOOSE k \in 1..Len(text) :
            /\ text[k] \in MemberTokens /\ MemberKey(text[k]) = key
            /\ \A j \in (k + 1)..Len(text) :
                   ~(text[j] \in MemberTokens /\ MemberKey(text[j]) = key)]

HasMember(text, key) ==
    \E k \in 1..Len(text) : text[k] \in MemberTokens /\ MemberKey(text[k]) = key

\* the text embeds a JSON object with amount, category and description
EmbedsTransaction(text) ==
    /\ EmbedsJsonObject(text)
    /\ \A key \in {"amount", "category", "description"} : HasMember(text, key)

\* the text of the model in a process_document invocation whose model
\* call (its second operation) has returned
DocumentModelText(i) == ExtractGeminiText(results[i][2].value)

IsDocumentRun(i) == req[i].workflow = "process_document"

----------------------------------------------------------------------------
(* C1: when OCR returned a non-empty text and the model's text embeds a    *)
(* JSON object with amount, category and description, the operations       *)
(* process_document_and_register invokes are, in this order, OCR, the      *)
(* model, register_transaction with the account of the request and the     *)
(* amount, category and description of that object, then one notification;*)
(* and once the gateway and the notifier have answered it returns status   *)
(* success with the gateway's transaction and the OCR text.                *)

C1_Expected(i) ==
    LET text == DocumentModelText(i)
    IN [Call("gateway", "register_transaction") EXCEPT
           !.user = req[i].user_id,
           !.auth = GatewayAuthorization(req[i].token),
           !.account = req[i].account_id,
           !.amount = MemberNum(MemberOf(text, "amount")),
           !.type = "EXPENSE",
           !.category = MemberStr(MemberOf(text, "category")),
           !.description = MemberStr(MemberOf(text, "description"))]

C1_DocumentRegisteredAndNotified ==
    \A i \in DOMAIN pc :
        (/\ IsDocumentRun(i)
         /\ ReturnedAt(i, 1) /\ results[i][1].value.has_text
         /\ results[i][1].value.text # <<>>
         /\ ReturnedAt(i, 2) /\ EmbedsTransaction(DocumentModelText(i)))
        => /\ Len(calls[i]) >= 3
           /\ SubSeq(OpsOf(i), 1, 3) = <<"extract_text", "chat", "register_transaction">>
           /\ calls[i][3] = C1_Expected(i)
           /\ ReturnedAt(i, 3) =>
                /\ Len(calls[i]) = 4
                /\ calls[i][4].op = "send_notification"
                /\ calls[i][4].user = req[i].user_id
           /\ ~ReturnedAt(i, 3) => Len(calls[i]) = 3
           /\ ReturnedAt(i, 4) =>
                /\ ReturnsStatus(i, "success")
                /\ outcome[i].result.keys = {"status", "transaction", "ocr_text"}
                /\ outcome[i].result.transaction = results[i][3].value
                /\ outcome[i].result.ocr_text = results[i][1].value.text
           /\ ReturnsStatus(i, "success") => ReturnedAt(i, 4)

C1_Witness ==
    \E i \in DOMAIN pc :
        /\ IsDocumentRun(i)
        /\ ReturnsStatus(i, "success")
        /\ Len(calls[i]) = 4
        /\ calls[i][3].amount = 30 /\ calls[i][3].category = "Transporte"
        /\ calls[i][3].description = "Taxi"
        /\ outcome[i].result.transaction = "t2"

----------------------------------------------------------------------------
(* C2: when OCR answers with an empty text, or with none, the invocation   *)
(* of process_document_and_register has returned status error with a       *)
(* message, and OCR is the only operation it invoked: no model call, no    *)
(* gateway call, no notification.                                          *)

C2_EmptyOcrIsAnError ==
    \A i \in DOMAIN pc :
        (/\ IsDocumentRun(i)
         /\ ReturnedAt(i, 1)
         /\ (~results[i][1].value.has_text \/ results[i][1].value.text = <<>>))
        => /\ ReturnsStatus(i, "error")
           /\ "message" \in outcome[i].result.keys
           /\ outcome[i].result.message # ""
           /\ OpsOf(i) = <<"extract_text">>
           /\ Len(http[i]) = 1

C2_Witness ==
    \E i \in DOMAIN pc :
        /\ IsDocumentRun(i)
        /\ ReturnedAt(i, 1)
        /\ results[i][1].value.has_text /\ results[i][1].value.text = <<>>
        /\ ReturnsStatus(i, "error")

----------------------------------------------------------------------------
(* C3: when the model's text has no "{" followed by a "}", the invocation  *)
(* of process_document_and_register has returned status error and has      *)
(* invoked neither register_transaction nor send_notification.             *)

C3_NoBracesIsAnError ==
    \A i \in DOMAIN pc :
        (/\ IsDocumentRun(i)
         /\ ReturnedAt(i, 2)
         /\ ~HasBraceSpan(DocumentModelText(i)))
        => /\ ReturnsStatus(i, "error")
           /\ ~Invoked(i, "register_transaction")
           /\ ~Invoked(i, "send_notification")

C3_Witness ==
    \E i \in DOMAIN pc :
        /\ IsDocumentRun(i)
        /\ ReturnedAt(i, 2)
        /\ DocumentModelText(i) = <<"}", "No", "{">>
        /\ ReturnsStatus(i, "error")

----------------------------------------------------------------------------
(* C4: whatever text the model returns that does not embed a JSON object   *)
(* with amount, category and description (no JSON, malformed JSON, or a    *)
(* well-formed object lacking one of the three), the invocation of         *)
(* process_document_and_register does not raise: it has returned status    *)
(* error with a message and has registered no transaction.                 *)

C4_ModelOutputNeverRaises ==
    \A i \in DOMAIN pc :
        (/\ IsDocumentRun(i)
         /\ ReturnedAt(i, 2)
         /\ ~EmbedsTransaction(DocumentModelText(i)))
        => /\ ReturnsStatus(i, "error")
           /\ "message" \in outcome[i].result.keys
           /\ ~Invoked(i, "register_transaction")

----------------------------------------------------------------------------
(* C5: when the gateway answers the budgets query with an empty list,      *)
(* run_budget_audit invokes neither the model nor the notifier, and the    *)
(* result it returns, which it does once the transactions query is         *)
(* answered, is status no_budgets with a message.                          *)

IsAuditRun(i) == req[i].workflow = "budget_audit"

C5_NoBudgetsEndsTheAudit ==
    \A i \in DOMAIN pc :
        (/\ IsAuditRun(i)
         /\ ReturnedAt(i, 1)
         /\ results[i][1].value = <<>>)
        => /\ ~Invoked(i, "chat")
           /\ ~Invoked(i, "send_notification")
           /\ \A k \in 1..Len(http[i]) : http[i][k].svc = "gateway"
           /\ (pc[i] = "done" /\ outcome[i].kind = "return") =>
                /\ outcome[i].result.status = "no_budgets"
                /\ outcome[i].result.keys = {"status", "message"}
                /\ outcome[i].result.message # ""
           /\ ReturnedAt(i, 2) => ReturnsStatus(i, "no_budgets")

C5_Witness ==
    \E i \in DOMAIN pc :
        /\ IsAuditRun(i)
        /\ ReturnedAt(i, 1) /\ results[i][1].value = <<>>
        /\ ReturnsStatus(i, "no_budgets")
        /\ OpsOf(i) = <<"get_user_budgets", "get_recent_transactions">>

----------------------------------------------------------------------------
(* C6: a smart_categorize_transaction invocation none of whose operations  *)
(* failed ends with the classifier consulted and one transaction           *)
(* registered: with confidence >= 0.7 the model is not called and the      *)
(* registered category is the classifier's; with confidence < 0.7 the      *)
(* model is called exactly once and its trimmed text is the category that  *)
(* is registered and returned.                                             *)

CountOps(i, op) == Cardinality({ k \in 1..Len(calls[i]) : calls[i][k].op = op })

C6_ConfidenceDecidesTheCategory ==
    \A i \in DOMAIN pc :
        (/\ req[i].workflow = "smart_categorize"
         /\ pc[i] = "done"
         /\ \A k \in 1..Len(results[i]) : ~results[i][k].raised)
        => /\ outcome[i].kind = "return"
           /\ Len(calls[i]) >= 1 /\ calls[i][1].op = "classify_transaction"
           /\ CountOps(i, "register_transaction") = 1
           /\ \A k \in 1..Len(calls[i]) :
                calls[i][k].op = "register_transaction" =>
                  IF results[i][1].value.confidence >= ConfidenceThreshold
                  THEN /\ CountOps(i, "chat") = 0
                       /\ <<calls[i][k].category>>
                            = <<results[i][1].value.predictedCategory>>
                  ELSE /\ CountOps(i, "chat") = 1
                       /\ calls[i][2].op = "chat"
                       /\ <<calls[i][k].category>>
                            = Strip(ExtractGeminiText(results[i][2].value))
                       /\ outcome[i].result.category
                            = Strip(ExtractGeminiText(results[i][2].value))

----------------------------------------------------------------------------
(* C7: every client operation invoked with its key configured has put      *)
(* exactly one HTTP request on the wire; for GeminiClient.chat invoked     *)
(* with {role, text} messages of non-empty text, that request carries the  *)
(* text of each of them.                                                   *)

CountHttp(i, svc) == Cardinality({ k \in 1..Len(http[i]) : http[i][k].svc = svc })
CountCalls(i, svc) == Cardinality({ k \in 1..Len(calls[i]) : calls[i][k].svc = svc })

KeyConfigured(svc) ==
    CASE svc = "gemini" -> settings.gemini_api_key
      [] svc = "mistral" -> settings.mistral_ocr_api_key
      [] OTHER -> TRUE

C7_OneRequestPerOperation ==
    gemini_impl = "GeminiClient" =>
    \A i \in DOMAIN pc :
        /\ \A svc \in {"gemini", "mistral", "gateway", "notifier"} :
             KeyConfigured(svc) => CountHttp(i, svc) = CountCalls(i, svc)
        /\ \A k \in 1..Len(calls[i]) :
             (calls[i][k].op = "chat" /\ settings.gemini_api_key) =>
               \A m \in 1..Len(calls[i][k].messages) :
                 LET msg == calls[i][k].messages[m]
                 IN (msg.shape = "text" /\ Strip(msg.text) # <<>>) =>
                      \E j \in 1..Len(http[i]) :
                        /\ http[i][j].svc = "gemini"
                        /\ \E c \in 1..Len(http[i][j].messages) :
                             http[i][j].messages[c].text = Strip(msg.text)

----------------------------------------------------------------------------
(* C8: a chat request, over REST (once it passed validation) or over the   *)
(* graph, that meets no model API key, or a model call failing with        *)
(* RuntimeError or an httpx.HTTPError, is answered with the Fallback       *)
(* Agent's reply for its messages, as a normal response.                   *)

IsTransportChat(i) == req[i].workflow \in {"rest_chat", "graph_chat"}

ModelCallFailed(i) ==
    /\ Len(results[i]) >= 1
    /\ results[i][1].raised
    /\ (results[i][1].exc = "RuntimeError" \/ IsHTTPError(results[i][1].exc))

FallbackReplies(i) ==
    LET messages == IF req[i].workflow = "rest_chat"
                    THEN ValidateRequest(req[i]).messages
                    ELSE req[i].messages
    IN { FormatGeminiResponse(d) : d \in MockAgentChat(TextPayload(messages)) }

C8_ChatFallsBackToTheFallbackAgent ==
    \A i \in DOMAIN pc :
        (/\ IsTransportChat(i)
         /\ pc[i] = "done"
         /\ outcome[i].kind # "invalid"
         /\ (~settings.gemini_api_key \/ ModelCallFailed(i)))
        => /\ outcome[i].kind = "return"
           /\ outcome[i].result.messages \in FallbackReplies(i)

----------------------------------------------------------------------------
(* C9: send_notification hands back a status map whatever the notification *)
(* service answers, and never raises; a workflow whose last operation is   *)
(* the notification returns its result once that operation is over.        *)

C9_NotificationFailuresAreSwallowed ==
    \A i \in DOMAIN pc :
        \A k \in 1..Len(results[i]) :
            calls[i][k].op = "send_notification" =>
                /\ ~results[i][k].raised
                /\ results[i][k].value.status \in {"ok", "error"}
                /\ outcome[i].kind = "return"

----------------------------------------------------------------------------
(* C10: a gateway operation whose HTTP call failed, by a non-2xx status or *)
(* by a transport failure without response, raises RuntimeError and no     *)
(* other exception.                                                        *)

FailedCall(h) == h.net # "ok" \/ ~IsSuccess(h.status)

C10_GatewayFailuresAreRuntimeErrors ==
    \A i \in DOMAIN pc :
        \A k \in 1..Len(results[i]) :
            (/\ calls[i][k].svc = "gateway"
             /\ results[i][k].answered # <<>>
             /\ FailedCall(results[i][k].answered[1]))
            => /\ results[i][k].raised
               /\ results[i][k].exc = "RuntimeError"

----------------------------------------------------------------------------
(* C11: a GeminiClient.chat call whose request was answered with a non-2xx *)
(* status raises; it never hands back a candidates response.               *)

AnsweredWithErrorStatus(i, k) ==
    /\ results[i][k].answered # <<>>
    /\ results[i][k].answered[1].net = "ok"
    /\ ~IsSuccess(results[i][k].answered[1].status)

C11_ErrorStatusRaises ==
    gemini_impl = "GeminiClient" =>
    \A i \in DOMAIN pc :
        \A k \in 1..Len(results[i]) :
            (calls[i][k].op = "chat" /\ AnsweredWithErrorStatus(i, k))
            => results[i][k].raised

----------------------------------------------------------------------------
(* C12: when a gateway, model or OCR operation has failed with             *)
(* RuntimeError or an httpx.HTTPError in a request to POST /agent/ocr or   *)
(* to one of the workflow endpoints, the endpoint answers 502.             *)

RestWorkflows ==
    {"rest_ocr", "budget_audit", "process_document", "savings_plan",
     "smart_categorize", "financial_insights", "spending_alert"}

ClientFailure(i) ==
    \E k \in 1..Len(results[i]) :
        /\ calls[i][k].svc \in {"gateway", "gemini", "mistral"}
        /\ results[i][k].raised
        /\ results[i][k].exc \in {"RuntimeError", "HTTPStatusError", "TransportError"}

C12_ClientFailuresAnswer502 ==
    \A i \in DOMAIN pc :
        (/\ req[i].workflow \in RestWorkflows
         /\ pc[i] = "done"
         /\ ClientFailure(i))
        => RestEndpointStatus(outcome[i]) = 502

----------------------------------------------------------------------------
(* C13: every result map an orchestrator workflow has returned carries a   *)
(* status, and one whose status is error carries a message as well.        *)

OrchestratorWorkflows ==
    {"budget_audit", "process_document", "savings_plan", "smart_categorize",
     "financial_insights", "spending_alert"}

C13_ResultsCarryAStatus ==
    \A i \in DOMAIN pc :
        (req[i].workflow \in OrchestratorWorkflows /\ outcome[i].kind = "return")
        => /\ "status" \in outcome[i].result.keys
           /\ outcome[i].result.status # ""
           /\ outcome[i].result.status = "error" =>
                /\ "message" \in outcome[i].result.keys
                /\ outcome[i].result.message # ""

\* the five workflows that return have each returned a map: this one an
\* error map
C13_Witness ==
    \E i \in DOMAIN pc :
        /\ req[i].workflow = "process_document"
        /\ ReturnsStatus(i, "error")
        /\ outcome[i].result.keys = {"status", "message"}
        /\ Len(calls[i]) = 2

----------------------------------------------------------------------------
(* C14: a REST chat request with no message (the list empty or absent)     *)
(* and no prompt, or a blank one, is rejected by validation (422) and      *)
(* nothing was called for it: neither the model nor the Fallback Agent.    *)

IsBlank(text) == \A k \in 1..Len(text) : text[k] = " "

C14_EmptyChatRequestIsRejected ==
    \A i \in DOMAIN pc :
        (/\ req[i].workflow = "rest_chat"
         /\ req[i].messages = <<>>
         /\ IsBlank(req[i].text))
        => /\ pc[i] = "done"
           /\ outcome[i].kind = "invalid"
           /\ RestEndpointStatus(outcome[i]) = 422
           /\ outcome[i].result.messages = <<>>
           /\ calls[i] = <<>> /\ http[i] = <<>> /\ results[i] = <<>>

C14_Witness ==
    \E i \in DOMAIN pc :
        /\ req[i].workflow = "rest_chat"
        /\ req[i].messages = <<>>
        /\ req[i].text = <<" ">>
        /\ outcome[i].kind = "invalid"

----------------------------------------------------------------------------
(* C15: for a REST chat request with only a prompt, the message list the   *)
(* model is called with is one user message whose text is the prompt       *)
(* trimmed, and the endpoint does for it exactly what it does for the      *)
(* request holding that single message instead of the prompt.              *)

\* t is p without its leading and trailing blanks
IsTrimOf(t, p) ==
    /\ t # <<>> /\ t[1] # " " /\ t[Len(t)] # " "
    /\ \E a \in 0..Len(p) :
         /\ a + Len(t) <= Len(p)
         /\ SubSeq(p, a + 1, a + Len(t)) = t
         /\ \A k \in 1..a : p[k] = " "
         /\ \A k \in (a + Len(t) + 1)..Len(p) : p[k] = " "

\* the request holding, for the prompt of r, a single user message
SingleMessageRequest(r, t) ==
    [r EXCEPT !.messages = <<Message("user", "content", t)>>, !.text = <<>>]

C15_PromptIsASingleUserMessage ==
    \A i \in DOMAIN pc :
        (/\ req[i].workflow = "rest_chat"
         /\ req[i].messages = <<>>
         /\ ~IsBlank(req[i].text))
        => /\ \A k \in 1..Len(calls[i]) :
                calls[i][k].op = "chat" =>
                  /\ Len(calls[i][k].messages) = 1
                  /\ calls[i][k].messages[1].role = "user"
                  /\ IsTrimOf(calls[i][k].messages[1].text, req[i].text)
           /\ \A t \in ChatContents \cup {<<"Hola">>} :
                IsTrimOf(t, req[i].text) =>
                  RC_Begin(req[i]) = RC_Begin(SingleMessageRequest(req[i], t))
           /\ settings.gemini_api_key => Invoked(i, "chat")

C15_Witness ==
    \E i \in DOMAIN pc :
        /\ req[i].workflow = "rest_chat"
        /\ req[i].messages = <<>>
        /\ req[i].text = <<" ", "Hola">>
        /\ Len(calls[i]) = 1
        /\ calls[i][1].op = "chat"
        /\ calls[i][1].messages = <<Message("user", "text", <<"Hola">>)>>

----------------------------------------------------------------------------
(* C16: once the model has answered a budget audit, the audit has invoked  *)
(* send_notification exactly when the model's text contains "alerta" or    *)
(* "excedido" in any case; that notification is a WARNING for the user     *)
(* whose message is the first 200 positions of the text; and the audit     *)
(* returns status completed with the text and the number of budgets, at    *)
(* once without a notification, else when the notifier has answered.       *)

\* the words of the model's texts that hold "alerta" or "excedido" when
\* the case is ignored
AlertWords == {"ALERTA", "alerta", "Alerta", "Excedido", "excedido", "EXCEDIDO"}

MentionsAlert(text) == \E k \in 1..Len(text) : text[k] \in AlertWords

\* the text of the model in an audit whose model call (its third
\* operation) has returned
AuditModelText(i) == ExtractGeminiText(results[i][3].value)

\* the first n positions of the text
IsPrefixOfLength(m, text, n) ==
    /\ Len(m) = (IF Len(text) <= n THEN Len(text) ELSE n)
    /\ \A k \in 1..Len(m) : m[k] = text[k]

C16_AuditNotifiesOnAlertWords ==
    \A i \in DOMAIN pc :
        (IsAuditRun(i) /\ ReturnedAt(i, 3))
        => /\ MentionsAlert(AuditModelText(i)) <=> Invoked(i, "send_notification")
           /\ CountOps(i, "send_notification") <= 1
           /\ \A k \in 1..Len(calls[i]) :
                calls[i][k].op = "send_notification" =>
                  /\ k = 4
                  /\ calls[i][k].type = "WARNING"
                  /\ calls[i][k].user = req[i].user_id
                  /\ IsPrefixOfLength(calls[i][k].text, AuditModelText(i), 200)
           /\ (~MentionsAlert(AuditModelText(i)) \/ ReturnedAt(i, 4)) =>
                /\ ReturnsStatus(i, "completed")
                /\ outcome[i].result.analysis = AuditModelText(i)
                /\ outcome[i].result.budgets_reviewed = Len(results[i][1].value)

\* an audit that notified with a text cut at the cap, and returned
C16_Witness ==
    \E i \in DOMAIN pc :
        /\ IsAuditRun(i)
        /\ ReturnedAt(i, 4)
        /\ Len(AuditModelText(i)) > 200
        /\ Len(calls[i][4].text) = 200
        /\ ReturnsStatus(i, "completed")
        /\ outcome[i].result.budgets_reviewed = 2

----------------------------------------------------------------------------
(* C17: once the three queries of proactive_spending_alert are answered,   *)
(* the model is called exactly when a pattern has type "anomaly" or more   *)
(* than 15 predictions came back.  Not called: the result is no_alerts and *)
(* nothing is notified.  Called and answering a text that trimmed is "OK": *)
(* the same.  Called and answering any other text: one WARNING             *)
(* notification is sent to the user and, when the notifier has answered,   *)
(* the result is alert_sent with the number of anomalies.                  *)

IsAlertRun(i) == req[i].workflow = "spending_alert"

AnomalyCount(patterns) ==
    Cardinality({ k \in 1..Len(patterns) : patterns[k] = "anomaly" })

\* the queries of invocation i call for the model
CallsForTheModel(i) ==
    AnomalyCount(results[i][3].value) >= 1 \/ results[i][1].value > 15

\* the text of the model in a spending alert whose model call (its fourth
\* operation) has returned
AlertModelText(i) == ExtractGeminiText(results[i][4].value)

C17_AlertFollowsTheModel ==
    \A i \in DOMAIN pc :
        (/\ IsAlertRun(i)
         /\ ReturnedAt(i, 1) /\ ReturnedAt(i, 2) /\ ReturnedAt(i, 3))
        => /\ CallsForTheModel(i) <=> Invoked(i, "chat")
           /\ CountOps(i, "chat") <= 1
           /\ CountOps(i, "send_notification") <= 1
           /\ ~CallsForTheModel(i) =>
                /\ ReturnsStatus(i, "no_alerts")
                /\ ~Invoked(i, "send_notification")
           /\ (ReturnedAt(i, 4) /\ AlertModelText(i) = <<"OK">>) =>
                /\ ReturnsStatus(i, "no_alerts")
                /\ ~Invoked(i, "send_notification")
           /\ (ReturnedAt(i, 4) /\ AlertModelText(i) # <<"OK">>) =>
                /\ Len(calls[i]) = 5
                /\ calls[i][5].op = "send_notification"
                /\ calls[i][5].type = "WARNING"
                /\ calls[i][5].user = req[i].user_id
                /\ ~ReturnsStatus(i, "no_alerts")
                /\ ReturnedAt(i, 5) =>
                     /\ ReturnsStatus(i, "alert_sent")
                     /\ outcome[i].result.anomalies
                          = AnomalyCount(results[i][3].value)
           /\ ReturnsStatus(i, "alert_sent") => ReturnedAt(i, 5)

\* an alert sent for one anomaly among two patterns, the volume being low
C17_Witness ==
    \E i \in DOMAIN pc :
        /\ IsAlertRun(i)
        /\ ReturnsStatus(i, "alert_sent")
        /\ results[i][1].value = 15
        /\ Len(results[i][3].value) = 2
        /\ outcome[i].result.anomalies = 1
        /\ OpsOf(i)[4] = "chat" /\ OpsOf(i)[5] = "send_notification"

----------------------------------------------------------------------------
(* C18: the message of every WARNING notification an orchestrator workflow *)
(* sends is at most 200 positions long, whatever the model answered.       *)

C18_AlertMessagesAreCapped ==
    \A i \in DOMAIN pc :
        \A k \in 1..Len(calls[i]) :
            (calls[i][k].op = "send_notification" /\ calls[i][k].type = "WARNING")
            => Len(calls[i][k].text) <= 200

----------------------------------------------------------------------------
(* C19: every register_transaction an orchestrator workflow invokes has    *)
(* type EXPENSE exactly when its amount is negative.                       *)

C19_ExpenseIffNegative ==
    \A i \in DOMAIN pc :
        \A k \in 1..Len(calls[i]) :
            calls[i][k].op = "register_transaction" =>
                (calls[i][k].type = "EXPENSE" <=> calls[i][k].amount < 0)

----------------------------------------------------------------------------
(* C20: when two workflow invocations for different users interleave at    *)
(* their await points, every gateway call and every notification of an     *)
(* invocation carries that invocation's own user id and token (the gateway *)
(* call the token in its Authorization header, and the user id where the   *)
(* operation has one; the notification the user id), never the other's,    *)
(* and each invocation is where it would be, with the calls and the result *)
(* it would have, had it run alone against the same upstream answers.      *)

\* the first segment of the workflow of request r
WorkflowBegin(r) ==
    CASE r.workflow = "process_document" -> PD_Begin(r)
      [] r.workflow = "budget_audit" -> BA_Begin(r)
      [] r.workflow = "savings_plan" -> SP_Begin(r)
      [] r.workflow = "financial_insights" -> FI_Begin(r)
      [] r.workflow = "spending_alert" -> SA_Begin(r)
      [] r.workflow = "smart_categorize" -> SC_Begin(r)

\* the segment that follows the await point p
WorkflowContinue(p, r, l, o) ==
    CASE p = "pd_ocr" -> PD_AfterOcr(r, l, o)
      [] p = "pd_model" -> PD_AfterModel(r, l, o)
      [] p = "pd_register" -> PD_AfterRegister(r, l, o)
      [] p = "pd_notify" -> PD_AfterNotify(r, l, o)
      [] p = "ba_budgets" -> BA_AfterBudgets(r, l, o)
      [] p = "ba_transactions" -> BA_AfterTransactions(r, l, o)
      [] p = "ba_model" -> BA_AfterModel(r, l, o)
      [] p = "ba_notify" -> BA_AfterNotify(r, l, o)
      [] p = "sp_accounts" -> SP_AfterAccounts(r, l, o)
      [] p = "sp_transactions" -> SP_AfterTransactions(r, l, o)
      [] p = "sp_model" -> SP_AfterModel(r, l, o)
      [] p = "sp_notify" -> SP_AfterNotify(r, l, o)
      [] p = "fi_patterns" -> FI_AfterPatterns(r, l, o)
      [] p = "fi_forecast" -> FI_AfterForecast(r, l, o)
      [] p = "fi_budgets" -> FI_AfterBudgets(r, l, o)
      [] p = "fi_goals" -> FI_AfterGoals(r, l, o)
      [] p = "fi_accounts" -> FI_AfterAccounts(r, l, o)
      [] p = "fi_model" -> FI_AfterModel(r, l, o)
      [] p = "fi_notify" -> FI_AfterNotify(r, l, o)
      [] p = "sa_predictions" -> SA_AfterPredictions(r, l, o)
      [] p = "sa_budgets" -> SA_AfterBudgets(r, l, o)
      [] p = "sa_patterns" -> SA_AfterPatterns(r, l, o)
      [] p = "sa_model" -> SA_AfterModel(r, l, o)
      [] p = "sa_notify" -> SA_AfterNotify(r, l, o)

\* the workflow of request r run by itself from e, its operations handing
\* back rs[k], rs[k+1], ...: where it stands, its calls and its outcome
RECURSIVE RunAlone(_, _, _, _)
RunAlone(r, e, rs, k) ==
    IF e.pc = "done" \/ k > Len(rs) THEN e
    ELSE LET n == WorkflowContinue(e.pc, r, e.loc, rs[k])
         IN RunAlone(r, [n EXCEPT !.calls = e.calls \o n.calls,
                                  !.http = e.http \o n.http], rs, k + 1)

\* the Authorization header of the requests of invocation i
OwnAuthorization(i) == IF req[i].user_id = "u1" THEN "Bearer tok1" ELSE "Bearer tok2"

----------------------------------------------------------------------------
(* C21: within one workflow invocation at most one outbound call (gateway, *)
(* OCR, model or notifier) is in flight at any moment, and a call is       *)
(* issued only after every earlier call of the invocation has handed back: *)
(* the calls issued are at most one more than the calls that came back,    *)
(* none is in flight once the handler is over, and the same holds of the   *)
(* HTTP requests and their answers.                                        *)

\* the calls of invocation i that have not handed back
InFlight(i) == Len(calls[i]) - Len(results[i])

\* the HTTP requests of invocation i that have no answer
RequestsInFlight(i) == Len(http[i]) - Len(replies[i])

C21_OneCallInFlight ==
    \A i \in DOMAIN pc :
        req[i].workflow \in OrchestratorWorkflows =>
            /\ InFlight(i) \in {0, 1}
            /\ RequestsInFlight(i) \in {0, 1}
            /\ RequestsInFlight(i) <= InFlight(i)
            /\ pc[i] = "done" => InFlight(i) = 0
            /\ \A k \in 1..Len(results[i]) : k <= Len(calls[i])

\* the insights handler waits for the model, its sixth call, the five
\* gateway calls before it having handed back
C21_Witness ==
    \E i \in DOMAIN pc :
        /\ req[i].workflow = "financial_insights"
        /\ pc[i] = "fi_model"
        /\ Len(calls[i]) = 6 /\ calls[i][6].op = "chat"
        /\ Len(results[i]) = 5
        /\ \A k \in 1..5 : calls[i][k].svc = "gateway" /\ ~results[i][k].raised

----------------------------------------------------------------------------
(* C22: a savings plan asked for with months = 0 never fails with a        *)
(* division by zero, neither in the orchestrator's workflow nor in the     *)
(* Fallback Agent: no operation and no handler raises ZeroDivisionError,   *)
(* the workflow none of whose operations failed returns success with       *)
(* months 0, the mutation always returns, and the plan of the Fallback     *)
(* Agent reports a monthly amount of 0 whenever months <= 0.               *)

IsSavingsRun(i) == req[i].workflow \in {"savings_plan", "graph_savings_plan"}

\* invocation i has returned the plan of the Fallback Agent
ReturnsFallbackPlan(i) ==
    /\ req[i].workflow = "graph_savings_plan"
    /\ ReturnsStatus(i, "SUCCESS")

\* the monthly amount the plan of the Fallback Agent reports
ReportedMonthly(i) == outcome[i].result.plan[4]

C22_SavingsPlanNeverDividesByZero ==
    \A i \in DOMAIN pc :
        (IsSavingsRun(i) /\ req[i].months <= 0) =>
            /\ outcome[i].exc # "ZeroDivisionError"
            /\ \A k \in 1..Len(results[i]) : results[i][k].exc # "ZeroDivisionError"
            /\ (/\ pc[i] = "done"
                /\ req[i].workflow = "savings_plan"
                /\ \A k \in 1..Len(results[i]) : ~results[i][k].raised)
               => /\ ReturnsStatus(i, "success")
                  /\ outcome[i].result.months = req[i].months
            /\ (pc[i] = "done" /\ req[i].workflow = "graph_savings_plan")
               => outcome[i].kind = "return"
            /\ ReturnsFallbackPlan(i)
               => /\ ReportedMonthly(i) = "0"
                  /\ outcome[i].result.months = req[i].months
                  /\ outcome[i].result.target = req[i].amount

\* the mutation answered with the Fallback Agent's plan for months = 0
\* after the accounts query of the workflow failed
C22_Witness ==
    \E i \in DOMAIN pc :
        /\ ReturnsFallbackPlan(i)
        /\ req[i].months = 0
        /\ Len(results[i]) = 1 /\ results[i][1].raised
        /\ ReportedMonthly(i) = "0"

----------------------------------------------------------------------------
(* C23: _calculate_avg_expense, as the savings plan applies it to the      *)
(* transactions the gateway answered with, is 0.0 for every list without a *)
(* negative amount (the empty list too) and otherwise the absolute value   *)
(* of the mean of the negative amounts only: 40.0 for [-50, -30], and the  *)
(* same with positive amounts among them.  Amounts are in hundredths.      *)

\* the transactions the savings plan of invocation i was answered with
SavingsTransactions(i) == results[i][2].value

\* the savings plan of invocation i has computed its average expense
HasAverage(i) ==
    /\ IsSavingsRun(i)
    /\ ReturnedAt(i, 1) /\ ReturnedAt(i, 2)

\* the average expense in the prompt of invocation i
AverageInPrompt(i) == calls[i][3].messages[1].text[9]

NegativeIndexes(ts) == { k \in 1..Len(ts) : ts[k] < 0 }

RECURSIVE NegativeTotal(_, _)
NegativeTotal(ts, ks) ==
    IF ks = {} THEN 0
    ELSE LET k == CHOOSE x \in ks : TRUE
         IN (0 - ts[k]) + NegativeTotal(ts, ks \ {k})

\* a is the absolute value of the mean of the negative amounts of ts
IsMeanOfNegatives(a, ts) ==
    a * Cardinality(NegativeIndexes(ts))
        = 100 * NegativeTotal(ts, NegativeIndexes(ts))

C23_AverageOfNegativeAmounts ==
    \A i \in DOMAIN pc :
        HasAverage(i) =>
            /\ Len(calls[i]) >= 3 /\ calls[i][3].op = "chat"
            /\ NegativeIndexes(SavingsTransactions(i)) = {}
               => AverageInPrompt(i) = "0"
            /\ NegativeIndexes(SavingsTransactions(i)) # {}
               => \E a \in {3000, 4000, 5000} :
                    /\ AverageInPrompt(i) = ToString(a)
                    /\ IsMeanOfNegatives(a, SavingsTransactions(i))
            /\ SavingsTransactions(i) \in {<<-50, -30>>, <<-50, 20, -30>>}
               => AverageInPrompt(i) = "4000"

\* the average of [-50, 20, -30] is 40.0
C23_Witness ==
    \E i \in DOMAIN pc :
        /\ HasAverage(i)
        /\ SavingsTransactions(i) = <<-50, 20, -30>>
        /\ AverageInPrompt(i) = "4000"

----------------------------------------------------------------------------
(* C24: a smart_categorize_transaction invocation none of whose operations *)
(* failed returns a result whose method tag is "ml" exactly when the       *)
(* classifier confidence is >= 0.7 and "gemini_assisted" otherwise, and    *)
(* whose category is the category of the transaction it registered.        *)

----------------------------------------------------------------------------
(* C25: the graph mutations audit_budget and generate_savings_plan never   *)
(* propagate a failure of the orchestrator: they always end by returning,  *)
(* and when an operation of the workflow raised they return the Fallback   *)
(* Agent's canned result (status SUCCESS; three budgets reviewed for the   *)
(* audit, the target and months asked for the plan), while a workflow that *)
(* did not fail returns its own result.                                    *)

IsGraphMutation(i) ==
    req[i].workflow \in {"graph_audit_budget", "graph_savings_plan"}

\* an operation of the workflow of invocation i raised
WorkflowFailed(i) == \E k \in 1..Len(results[i]) : results[i][k].raised

C25_MutationsFallBack ==
    \A i \in DOMAIN pc :
        (IsGraphMutation(i) /\ pc[i] = "done") =>
            /\ outcome[i].kind = "return"
            /\ WorkflowFailed(i) =>
                 /\ outcome[i].result.status = "SUCCESS"
                 /\ req[i].workflow = "graph_audit_budget" =>
                      /\ outcome[i].result.keys
                           = {"status", "analysis", "budgets_reviewed", "message"}
                      /\ outcome[i].result.budgets_reviewed = 3
                      /\ outcome[i].result.analysis # <<>>
                 /\ req[i].workflow = "graph_savings_plan" =>
                      /\ outcome[i].result.keys
                           = {"status", "plan", "target", "months"}
                      /\ outcome[i].result.target = req[i].amount
                      /\ outcome[i].result.months = req[i].months
                      /\ outcome[i].result.plan # <<>>
            /\ ~WorkflowFailed(i) =>
                 outcome[i].result.status \in {"no_budgets", "completed", "success"}

\* the audit mutation answered with the canned audit after the model call
\* of the workflow, its third operation, raised
C25_Witness ==
    \E i \in DOMAIN pc :
        /\ req[i].workflow = "graph_audit_budget"
        /\ pc[i] = "done"
        /\ Len(results[i]) = 3 /\ results[i][3].raised
        /\ calls[i][3].op = "chat"
        /\ outcome[i].kind = "return"
        /\ outcome[i].result.status = "SUCCESS"
        /\ outcome[i].result.budgets_reviewed = 3

----------------------------------------------------------------------------
(* C26: in process_document_and_register and smart_categorize_transaction  *)
(* a notification is sent only after register_transaction has returned     *)
(* without raising: the operation before every notification is a           *)
(* register_transaction that returned, and when the OCR, the classifier,   *)
(* the model or the gateway write raised, the invocation sends no          *)
(* notification.                                                           *)

IsRegisteringRun(i) == req[i].workflow \in {"process_document", "smart_categorize"}

\* an operation of invocation i other than a notification raised
WriteOrBeforeFailed(i) ==
    \E k \in 1..Len(results[i]) :
        /\ results[i][k].raised
        /\ calls[i][k].op \in {"extract_text", "classify_transaction", "chat",
                               "register_transaction"}

C26_NotificationFollowsTheWrite ==
    \A i \in DOMAIN pc :
        IsRegisteringRun(i) =>
            /\ \A k \in 1..Len(calls[i]) :
                 calls[i][k].op = "send_notification" =>
                    /\ k > 1
                    /\ calls[i][k - 1].op = "register_transaction"
                    /\ ReturnedAt(i, k - 1)
            /\ \A k \in 1..Len(http[i]) :
                 http[i][k].svc = "notifier" =>
                    /\ k > 1
                    /\ http[i][k - 1].op = "register_transaction"
                    /\ IsSuccess(replies[i][k - 1].status)
            /\ WriteOrBeforeFailed(i) => ~Invoked(i, "send_notification")

\* the notification of a document is in flight, the write before it
\* having returned
C26_Witness ==
    \E i \in DOMAIN pc :
        /\ req[i].workflow = "process_document"
        /\ pc[i] = "pd_notify"
        /\ OpsOf(i) = <<"extract_text", "chat", "register_transaction",
                        "send_notification">>
        /\ ReturnedAt(i, 3)

----------------------------------------------------------------------------
(* C27: every workflow invocation makes at most one model call, at most    *)
(* one transaction write and sends at most one notification, and           *)
(* run_budget_audit, generate_savings_plan, generate_financial_insights    *)
(* and proactive_spending_alert never issue a transaction write.           *)

\* the HTTP requests of invocation i for the operation op
RequestsFor(i, op) ==
    Cardinality({ k \in 1..Len(http[i]) : http[i][k].op = op })

ReadOnlyWorkflows ==
    {"budget_audit", "savings_plan", "financial_insights", "spending_alert"}

C27_AtMostOneOfEach ==
    \A i \in DOMAIN pc :
        req[i].workflow \in OrchestratorWorkflows =>
            /\ CountOps(i, "chat") <= 1
            /\ RequestsFor(i, "generateContent") <= 1
            /\ CountOps(i, "register_transaction") <= 1
            /\ RequestsFor(i, "register_transaction") <= 1
            /\ CountOps(i, "send_notification") <= 1
            /\ RequestsFor(i, "send_notification") <= 1
            /\ req[i].workflow \in ReadOnlyWorkflows =>
                 /\ CountOps(i, "register_transaction") = 0
                 /\ RequestsFor(i, "register_transaction") = 0

\* a savings plan over: one model call, one notification, nothing written
C27_Witness ==
    \E i \in DOMAIN pc :
        /\ req[i].workflow = "savings_plan"
        /\ ReturnsStatus(i, "success")
        /\ CountOps(i, "chat") = 1
        /\ CountOps(i, "send_notification") = 1
        /\ CountOps(i, "register_transaction") = 0
        /\ Len(calls[i]) = 4

----------------------------------------------------------------------------
(* C28: proactive_spending_alert sends a notification only when the model  *)
(* returned a non-empty risk message: when the model's response has no     *)
(* candidate or an empty text, no notification is sent and the invocation  *)
(* ends with status no_alerts.                                             *)

\* the model of the alert run i handed back a response without any text
ModelGaveNoText(i) ==
    /\ IsAlertRun(i)
    /\ Len(calls[i]) >= 4 /\ calls[i][4].op = "chat"
    /\ ReturnedAt(i, 4)
    /\ AlertModelText(i) = <<>>

C28_EmptyTextSendsNoAlert ==
    \A i \in DOMAIN pc :
        ModelGaveNoText(i) =>
            /\ ~Invoked(i, "send_notification")
            /\ pc[i] = "done" /\ ReturnsStatus(i, "no_alerts")

----------------------------------------------------------------------------
(* C29: when the user has no budgets, run_budget_audit returns status      *)
(* no_budgets independently of the recent-transactions fetch: once the     *)
(* audit is over it has returned no_budgets, whether that fetch was        *)
(* answered or failed.                                                     *)

\* the gateway answered the budgets query of the audit i with no budget
UserHasNoBudgets(i) ==
    /\ IsAuditRun(i)
    /\ ReturnedAt(i, 1)
    /\ results[i][1].value = <<>>

C29_NoBudgetsWhateverTheTransactions ==
    \A i \in DOMAIN pc :
        (UserHasNoBudgets(i) /\ pc[i] = "done") => ReturnsStatus(i, "no_budgets")

----------------------------------------------------------------------------
(* C30: generate_financial_insights completes for every list of goals with *)
(* numeric current and target amounts, a goal whose target amount is 0     *)
(* included: it never fails with a division by zero, and once its five     *)
(* gateway queries have returned it goes on to ask the model.              *)

IsInsightsRun(i) == req[i].workflow = "financial_insights"

\* the five gateway queries of the insights run i have returned
QueriesReturned(i) == \A k \in 1..5 : ReturnedAt(i, k)

C30_InsightsSurviveZeroTargets ==
    \A i \in DOMAIN pc :
        IsInsightsRun(i) =>
            /\ outcome[i].exc # "ZeroDivisionError"
            /\ QueriesReturned(i) =>
                 /\ Len(calls[i]) >= 6
                 /\ calls[i][6].op = "chat"

====
